---- MODULE Spec2Model ----
(***************************************************************************)
(* Model of the robin_stocks core: the request pipeline of                 *)
(* robinhood/helper.py (request_get, request_post, request_delete) and its *)
(* field filter (filter_data), the session store of robinhood/globals.py,  *)
(* the credential cache and the login/logout state machine of              *)
(* robinhood/authentication.py, with the memoized endpoint wrappers that   *)
(* sit on top of them.                                                     *)
(*                                                                         *)
(* Names the modules import from one another are taken as the functions    *)
(* they name: set_login_state (authentication.py 9) writes the logged-in   *)
(* flag of globals.py 22-25 that helper.login_required reads, and          *)
(* get_output is the output sink of globals.py 78-80; a print to the sink  *)
(* changes no state and is left out.                                       *)
(*                                                                         *)
(* JSON values are tagged records: null is [t |-> "null"], an object is    *)
(* [t |-> "obj", f |-> <function from keys to values>], a list is          *)
(* [t |-> "list", items |-> <sequence>].  A requests.Response that is      *)
(* handed back unparsed is [t |-> "response", ...].                        *)
(***************************************************************************)
EXTENDS Integers, Sequences, FiniteSets, TLC

\* ------------------------------------------------------------------ bounds
MaxPages == 3
MaxLen == 1

\* ------------------------------------------------------------- JSON values
NoneV == [t |-> "null"]
EmptyF == [k \in {} |-> "x"]
Obj(f) == [t |-> "obj", f |-> f]
EmptyObj == Obj(EmptyF)
ListV(items) == [t |-> "list", items |-> items]
\* the list [None]
Sentinel == ListV(<<NoneV>>)
ResponseV(i) == [t |-> "response", page |-> i]

\* The result objects a page of the API may carry.
Items == {Obj([id |-> [t |-> "str", s |-> "a"]]), Obj([id |-> [t |-> "str", s |-> "b"]])}

SeqsUpTo(S, n) == UNION {[1..k -> S] : k \in 0..n}

\* --------------------------------------------------------------- the server
\* How the transport answers one HTTP call: a 2xx response, a response with
\* a 4xx/5xx status (raise_for_status raises HTTPError), or no response at
\* all (session.get/post/delete raises ConnectionError or Timeout).
Statuses == {"ok", "http_error", "transport"}

\* One page of a list endpoint.  A page that is not the last of its chain
\* carries 'next' = the URL of the following page; the last one carries
\* next = null.  hasResults = FALSE is a body without a 'results' key.
OkPages ==
    [status : {"ok"}, hasResults : {TRUE}, results : SeqsUpTo(Items, MaxLen)]
      \cup [status : {"ok"}, hasResults : {FALSE}, results : {<<>>}]
FailedPages == [status : {"http_error", "transport"}, hasResults : {FALSE}, results : {<<>>}]
Pages == OkPages \cup FailedPages
PageChains == UNION {[1..k -> Pages] : k \in 1..MaxPages}

\* A lookup of 'results' whose default is always the empty list.
ResultsOr_EmptyDefault(pgs, i, default) ==
    IF pgs[i].hasResults THEN pgs[i].results ELSE <<>>

\* body.get('results', default) of page i, as a Python list.
ResultsOr(pgs, i, default) == IF pgs[i].hasResults THEN pgs[i].results ELSE default
\* body['next'] of page i: the index of the next page, 0 for null.
NextOf(pgs, i) == IF i < Len(pgs) THEN i + 1 ELSE 0
\* res.json() of page i: an object with 'next' and, as a rule, 'results'.
BodyOf(pgs, i) ==
    LET next == IF NextOf(pgs, i) = 0 THEN NoneV ELSE [t |-> "url", page |-> NextOf(pgs, i)]
    IN  Obj(IF pgs[i].hasResults
            THEN [results |-> ListV(pgs[i].results), next |-> next]
            ELSE [next |-> next])

\* ------------------------------------------------------ what a call yields
Return(v, n) == [exc |-> "none", value |-> v, fetched |-> n]
Raise(e, n) == [exc |-> e, value |-> NoneV, fetched |-> n]

\* ------------------------------------------------------------------ state
Threads == {1, 2}
\* pickle_name: the profile suffix of the cache file (authentication.py 50).
Profiles == {"", "_alt"}

VARIABLES
    pages,          \* the server: the page chain behind the URL a call is given
    call,           \* the pipeline call made last
    outcome,        \* what that call gave back to its caller
    logged_in,      \* globals.py: RobinhoodGlobals._logged_in
    headers,        \* globals.py: RobinhoodGlobals._session.headers
    SESSION_DATA,   \* authentication.py: _SESSION_DATA
    cache,          \* ~/.tokens/robinhood<pickle_name>.pickle, per profile
    lock,           \* authentication.py: _LOGIN_LOCK, 0 when free, else its holder
    pc,             \* where each thread stands inside login()
    fr,             \* each thread's login() frame: arguments, locals, and what it did
    result,         \* what the operation each thread ran last gave back
    memo,           \* the lru_cache of each memoized endpoint wrapper
    issued,         \* the server: how many access tokens it has issued
    sessions,       \* tda: the requests.Session objects created so far, by number
    globals_SESSION,\* tda/globals.py: the object the name SESSION is bound to
    helper_SESSION, \* tda/helper.py: the object its imported name SESSION is bound to
    LOGGED_IN,      \* tda/helper.py: LOGGED_IN
    pickle,         \* tda: the file ~/.tokens/tda.pickle
    now,            \* tda: datetime.now(), in minutes
    api,            \* tda: the API side and the caches in front of it
    tda_result      \* tda: what the operation run last gave back

tdaVars ==
    <<sessions, globals_SESSION, helper_SESSION, LOGGED_IN, pickle, now, api, tda_result>>
vars == <<pages, call, outcome, logged_in, headers, SESSION_DATA, cache, lock,
          pc, fr, result, memo, issued, tdaVars>>
\* What the login() steps leave alone, and what the pipeline calls do.
pipeVars == <<pages, call, outcome, tdaVars>>
authVars == <<logged_in, SESSION_DATA, cache, lock, pc, fr, result, memo, issued, tdaVars>>
robinVars ==
    <<pages, call, outcome, logged_in, headers, SESSION_DATA, cache, lock,
      pc, fr, result, memo, issued>>

NoCall ==
    [method |-> "none", dataType |-> "regular", jsonify_data |-> TRUE,
     json |-> FALSE, status |-> "ok", data |-> NoneV, info |-> NoneV]
NoOutcome == Return(NoneV, 0)

\* ------------------------------------------------- helper.py: request_get
DataTypes == {"regular", "results", "pagination", "indexzero"}

\* A request_get that starts every shape from None.
DefaultData_AlwaysNone(dataType) == NoneV

\* helper.py 154-157: the value handed back when the first GET fails.
DefaultData(dataType) ==
    IF dataType \in {"results", "pagination"} THEN Sentinel ELSE NoneV

\* helper.py 174, first conjunct: 'next' in data.  data is by then the Python
\* list body['results'], so this is membership of the string 'next' among the
\* list's elements, not a key lookup in the response body.
NextInData(items) == \E i \in DOMAIN items : items[i] = [t |-> "str", s |-> "next"]

\* helper.py 172-182: the 'pagination' branch.  The loop's condition reads
\* the list of results: when no element equals 'next' the loop is left at
\* once, and when one does, data['next'] indexes a list with a string and
\* raises TypeError outside the try.  Either way the body of the loop (the
\* GET of the continuation page) is never entered, so one page is fetched.
Paginate(pgs) ==
    LET data == ResultsOr(pgs, 1, <<>>)
    IN  IF NextInData(data) THEN Raise("TypeError", 1) ELSE Return(ListV(data), 1)

\* helper.py 183-184: data.get('results', [{}])[0]
IndexZero(pgs) ==
    LET l == ResultsOr(pgs, 1, <<EmptyObj>>)
    IN  IF l = <<>> THEN Raise("IndexError", 1) ELSE Return(l[1], 1)

\* helper.py 152-186.  The except clause names HTTPError and AttributeError
\* only: a transport error raised by session.get is not caught.
request_get(pgs, dataType, jsonify_data) ==
    LET data == DefaultData(dataType)
    IN  CASE pgs[1].status = "transport" -> Raise("ConnectionError", 1)
          [] pgs[1].status = "http_error" -> Return(data, 1)
          [] OTHER ->
               IF ~jsonify_data THEN Return(ResponseV(1), 1)
               ELSE CASE dataType = "results" ->
                           Return(ListV(ResultsOr(pgs, 1, <<NoneV>>)), 1)
                      [] dataType = "pagination" -> Paginate(pgs)
                      [] dataType = "indexzero" -> IndexZero(pgs)
                      [] OTHER -> Return(BodyOf(pgs, 1), 1)

\* -------------------------------------------------- helper.py: filter_data
\* A filter that hands the data back whatever info is.
FilterBy_IgnoresInfo(data, compareDict, info) == Return(data, 0)

\* A filter that raises when the representative element lacks the key.
FilterBy_MissingRaises(data, compareDict, info) ==
    IF info = NoneV THEN Return(data, 0)
    ELSE IF compareDict.t # "obj" THEN Raise("TypeError", 0)
    ELSE IF info.s \notin DOMAIN compareDict.f THEN Raise("KeyError", 0)
    ELSE IF data.t # "list" THEN Return(data.f[info.s], 0)
    ELSE IF \E i \in DOMAIN data.items : data.items[i].t # "obj"
    THEN Raise("TypeError", 0)
    ELSE IF \E i \in DOMAIN data.items : info.s \notin DOMAIN data.items[i].f
    THEN Raise("KeyError", 0)
    ELSE Return(ListV([i \in DOMAIN data.items |-> data.items[i].f[info.s]]), 0)

\* helper.py 113-120, with compareDict chosen by the caller below.  A key
\* missing from a later element of the list raises KeyError (x[info]); an
\* element or value that is no dict raises TypeError.
FilterBy(data, compareDict, info) ==
    IF info = NoneV THEN Return(data, 0)
    ELSE IF compareDict.t # "obj" THEN Raise("TypeError", 0)
    ELSE IF info.s \in DOMAIN compareDict.f
    THEN IF data.t = "list"
         THEN IF \E i \in DOMAIN data.items : data.items[i].t # "obj"
              THEN Raise("TypeError", 0)
              ELSE IF \E i \in DOMAIN data.items : info.s \notin DOMAIN data.items[i].f
              THEN Raise("KeyError", 0)
              ELSE Return(ListV([i \in DOMAIN data.items |-> data.items[i].f[info.s]]), 0)
         ELSE Return(data.f[info.s], 0)
    ELSE Return(IF data.t = "list" THEN ListV(<<>>) ELSE NoneV, 0)

\* A filter without the test for the [None] sentinel.
filter_data_SentinelKept(data, info) ==
    IF data = NoneV THEN Return(data, 0)
    ELSE IF data.t = "list"
    THEN IF data.items = <<>> THEN Return(ListV(<<>>), 0)
         ELSE FilterBy(data, data.items[1], info)
    ELSE IF data.t = "obj" THEN FilterBy(data, data, info)
    ELSE Return(data, 0)

\* A filter that treats the [None] sentinel like None.
filter_data_SentinelNull(data, info) ==
    IF data = NoneV \/ data = Sentinel THEN Return(NoneV, 0)
    ELSE IF data.t = "list"
    THEN IF data.items = <<>> THEN Return(ListV(<<>>), 0)
         ELSE FilterBy(data, data.items[1], info)
    ELSE IF data.t = "obj" THEN FilterBy(data, data, info)
    ELSE Return(data, 0)

\* helper.py 97-120
filter_data(data, info) ==
    IF data = NoneV THEN Return(data, 0)
    ELSE IF data = Sentinel THEN Return(ListV(<<>>), 0)
    ELSE IF data.t = "list"
    THEN IF data.items = <<>> THEN Return(ListV(<<>>), 0)
         ELSE FilterBy(data, data.items[1], info)
    ELSE IF data.t = "obj" THEN FilterBy(data, data, info)
    ELSE Return(data, 0)

\* ------------------------------------------------ helper.py: request_post
FormCT == "application/x-www-form-urlencoded; charset=utf-8"
JsonCT == "application/json"

\* What the server answers to one POST or DELETE: status as above, the HTTP
\* status code and the parsed body.
PostResponse(reply) == [t |-> "response", status_code |-> reply.code, body |-> reply.body]

\* helper.py 188-205: every exception is caught and turned into None.
request_post(reply, json, jsonify_data) ==
    IF reply.status = "ok"
    THEN Return(IF jsonify_data THEN reply.body ELSE PostResponse(reply), 1)
    ELSE Return(NoneV, 1)

\* helper.py 191-192: the Content-Type the POST is sent with.
SentContentType(json) == IF json THEN JsonCT ELSE FormCT

\* helper.py 207-215
request_delete(reply) ==
    IF reply.status = "ok" THEN Return(PostResponse(reply), 1) ELSE Return(NoneV, 1)

\* ----------------------------------------------- globals.py: session store
StrV(x) == [t |-> "str", s |-> x]
Absent == [t |-> "absent"]
HeaderNames == {"Authorization", "Content-Type", "X-ROBINHOOD-CHALLENGE-RESPONSE-ID"}

\* globals.py 51: the Content-Type a new session is given.
DefaultContentType == "application/x-www-form-urlencoded; charset=utf-8"

\* globals.py 44-56: the headers of a freshly created session (of the seven
\* default headers only Content-Type is ever written again).
create_session ==
    [k \in HeaderNames |-> IF k = "Content-Type" THEN StrV(DefaultContentType) ELSE Absent]

\* helper.py 217-219
update_session(h, key, value) == [h EXCEPT ![key] = value]

\* ------------------------------------------------------------ the pipeline
\* What a POST or DELETE of a data endpoint is answered with.
DataReplies ==
    {[status |-> "ok", code |-> 200, body |-> Obj([id |-> StrV("a")])],
     [status |-> "http_error", code |-> 400, body |-> NoneV],
     [status |-> "transport", code |-> 0, body |-> NoneV]}

RequestGet(dataType, jsonify_data) ==
    /\ call' = [NoCall EXCEPT !.method = "get", !.dataType = dataType,
                              !.jsonify_data = jsonify_data,
                              !.status = pages[1].status]
    /\ outcome' = request_get(pages, dataType, jsonify_data)
    /\ UNCHANGED <<pages, headers>>
    /\ UNCHANGED authVars

\* helper.py 191-192: the session headers while the POST is under way.
HeadersDuringPost(h, json) ==
    IF json THEN update_session(h, "Content-Type", StrV(SentContentType(json))) ELSE h

\* A request_post without its finally clause.
RequestPost_NoRestore(reply, json, jsonify_data) ==
    /\ call' = [NoCall EXCEPT !.method = "post", !.jsonify_data = jsonify_data,
                              !.json = json, !.status = reply.status]
    /\ outcome' = request_post(reply, json, jsonify_data)
    /\ headers' = HeadersDuringPost(headers, json)
    /\ UNCHANGED pages
    /\ UNCHANGED authVars

\* helper.py 188-205: in JSON mode the Content-Type is switched before the
\* POST, and the finally clause writes the form Content-Type whatever the
\* POST did.
RequestPost(reply, json, jsonify_data) ==
    /\ call' = [NoCall EXCEPT !.method = "post", !.jsonify_data = jsonify_data,
                              !.json = json, !.status = reply.status]
    /\ outcome' = request_post(reply, json, jsonify_data)
    /\ headers' = update_session(HeadersDuringPost(headers, json),
                                 "Content-Type", StrV(FormCT))
    /\ UNCHANGED pages
    /\ UNCHANGED authVars

\* filter_data(data, info) applied to the arguments the call was given.
FilterData ==
    /\ call.method = "filter_data_called"
    /\ call' = [call EXCEPT !.method = "filter_data"]
    /\ outcome' = filter_data(call.data, call.info)
    /\ UNCHANGED <<pages, headers>>
    /\ UNCHANGED authVars

RequestDelete(reply) ==
    /\ call' = [NoCall EXCEPT !.method = "delete", !.jsonify_data = FALSE,
                              !.status = reply.status]
    /\ outcome' = request_delete(reply)
    /\ UNCHANGED <<pages, headers>>
    /\ UNCHANGED authVars

\* ------------------------------------------- authentication.py: the values
MaxTokens == 2
MaxPrompts == 2
MaxAttempts == 2

TokV(n) == [t |-> "token", n |-> n]
EmptySession == [kind |-> "empty"]
\* authentication.py 109-115: the bundle login() keeps and pickles.
Bundle(token_type, access_token, refresh_token, device_token) ==
    [kind |-> "bundle", token_type |-> token_type, access_token |-> access_token,
     refresh_token |-> refresh_token, device_token |-> device_token,
     detail |-> "Logged in with new authentication code."]
\* authentication.py 65: {**_SESSION_DATA, 'detail': ...}
Annotated(b, pickle_name) ==
    [kind |-> b.kind, bundle |-> b,
     detail |-> "Logged in using cached authentication in robinhood"
                  \o pickle_name \o ".pickle"]
\* authentication.py 59, 116: f"{token_type} {access_token}"
AuthHeader(token_type, access_token) ==
    [t |-> "auth", token_type |-> token_type, access_token |-> access_token]

\* authentication.py 16-20: a random value drawn by every login() call.  It
\* is carried in the payload and the bundle and decides no branch.
DeviceTokens == {"dev-a"}

\* The cache file of a profile: absent, or the pickle of a bundle, or a file
\* that is no such pickle: one the process may not read (open raises
\* PermissionError, an IOError), one cut short to nothing (pickle.load raises
\* EOFError), one whose bytes are no pickle (pickle.load raises
\* UnpicklingError), the pickle of a dict without the token fields, and the
\* pickle of an empty dict.
NoFile == [kind |-> "absent"]
UnreadableFile == [kind |-> "unreadable"]
TruncatedFile == [kind |-> "truncated"]
CorruptFile == [kind |-> "corrupt"]
PartialRecord == [kind |-> "record", detail |-> "Logged in with new authentication code."]
EmptyRecord == [kind |-> "empty_record"]
\* A bundle pickled by an earlier run of the program (token 0).
OldBundle == Bundle(StrV("Bearer"), TokV(0), TokV(0), "dev-0")

\* Bodies the login endpoint answers with.
TokenBody(n) ==
    Obj([token_type |-> StrV("Bearer"), access_token |-> TokV(n), refresh_token |-> TokV(n)])
MfaBody == Obj([mfa_required |-> StrV("true")])
ChallengeBody(id, remaining) ==
    Obj([challenge |-> [id |-> id, remaining_attempts |-> remaining]])
DetailBody == Obj([detail |-> StrV("Unable to log in with provided credentials.")])

\* Python truthiness of a parsed body: None and {} are falsy.
Falsy(v) == v = NoneV \/ v = EmptyObj
Has(v, key) == v.t = "obj" /\ key \in DOMAIN v.f

\* A login() frame: the arguments (store_session, pickle_name, creds: were
\* username and password passed in), the locals, and a record of what the
\* call did: how the probe went, whether it asked for the credentials, how
\* many codes it asked for, how many times it posted the payload, which
\* retry loop it entered, how the server answered its latest POST, the
\* remaining_attempts its latest challenge body reported, whether the
\* caller's previous operation was a logout() that went through, and what
\* kind of cache file it found ("unread" when it did not look).
IdleFrame ==
    [store_session |-> FALSE, pickle_name |-> "", creds |-> FALSE,
     device_token |-> "", cached_session |-> NoneV, data |-> NoneV,
     challenge_id |-> "", remaining |-> 0,
     probe |-> "none", prompted |-> FALSE, codes |-> 0, posts |-> 0,
     loop |-> "none", last |-> "none", after_logout |-> FALSE, file |-> "unread"]

\* What an operation gave back: the exception it raised ("none" when it
\* returned), the value, and what the operation did on the way: via and frame
\* for login(), the session state it was called in (pre) and the HTTP
\* requests it issued for the others.
NoPre == [logged_in |-> FALSE, SESSION_DATA |-> EmptySession, headers |-> <<>>]
\* What a finished login() call was given and did, read off its frame.
Summary(f) ==
    [store_session |-> f.store_session, pickle_name |-> f.pickle_name,
     cached_session |-> f.cached_session, probe |-> f.probe,
     prompted |-> f.prompted, codes |-> f.codes, posts |-> f.posts,
     loop |-> f.loop, last |-> f.last,
     challenge_id |-> f.challenge_id, remaining |-> f.remaining,
     after_logout |-> f.after_logout, file |-> f.file]
NoSummary == Summary(IdleFrame)
NoResult ==
    [op |-> "none", exc |-> "none", value |-> NoneV, via |-> "none",
     did |-> NoSummary, pre |-> NoPre, requests |-> 0, json |-> FALSE, sent |-> Absent]

\* ------------------------------------------------ the login endpoint's side
\* What the server may answer to the POST of the login payload: a 2xx with
\* a body (a fresh token pair, mfa_required, a challenge, an error detail,
\* an empty object), an error status with a detail, or nothing at all.
LoginReplies ==
    {[status |-> "ok", code |-> 200, body |-> b] :
        b \in {MfaBody, ChallengeBody("ch-1", MaxAttempts), DetailBody, EmptyObj}}
    \cup {[status |-> "ok", code |-> 200, body |-> TokenBody(n)] :
             n \in {k \in {issued + 1} : k <= MaxTokens}}
    \cup {[status |-> "http_error", code |-> 401, body |-> DetailBody],
          [status |-> "transport", code |-> 0, body |-> NoneV]}

\* What it may answer to the payload resubmitted with an MFA code: 200 with
\* a token pair, a 2xx other than 200, a rejection with an error status, or
\* nothing.
MfaReplies ==
    {[status |-> "ok", code |-> 200, body |-> TokenBody(n)] :
        n \in {k \in {issued + 1} : k <= MaxTokens}}
    \cup {[status |-> "ok", code |-> 202, body |-> MfaBody],
          [status |-> "http_error", code |-> 400, body |-> DetailBody],
          [status |-> "transport", code |-> 0, body |-> NoneV]}

\* What the challenge endpoint may answer to a code: accepted (a body without
\* 'challenge'), or rejected with the attempts that remain, in a 2xx or with
\* an error status, or nothing.
ChallengeReplies(id, remaining) ==
    {[status |-> "ok", code |-> 200, body |-> Obj([status |-> StrV("validated")])],
     [status |-> "transport", code |-> 0, body |-> NoneV]}
    \cup {[status |-> st, code |-> IF st = "ok" THEN 200 ELSE 400,
           body |-> ChallengeBody(id, remaining - 1)] :
             st \in {s2 \in {"ok", "http_error"} : remaining > 0}}

\* The server issues a token with every body that carries one.
IssuedAfter(reply) ==
    IF reply.status = "ok" /\ Has(reply.body, "access_token") THEN issued + 1 ELSE issued

\* ------------------------------------------------ authentication.py: login
\* authentication.py 28-34: the except clause names IOError and
\* pickle.UnpicklingError; the EOFError of a file cut short is let through.
load_cached_session(file) ==
    CASE file.kind \in {"unreadable", "corrupt"} -> Return(NoneV, 0)
      [] file.kind = "truncated" -> Raise("EOFError", 0)
      [] OTHER -> Return(file, 0)

\* authentication.py 54: os.path.isfile(pickle_path)
isfile(file) == file.kind # "absent"

\* authentication.py 56: if cached_session (None and {} are falsy)
Truthy(cached_session) == cached_session # NoneV /\ cached_session # EmptyRecord

LoginResult(t, exc, value, via, frame) ==
    [op |-> "login", exc |-> exc, value |-> value, via |-> via, did |-> Summary(frame),
     pre |-> NoPre, requests |-> 0, json |-> FALSE, sent |-> Absent]

\* A login() whose lock is released on return only.
LoginExit_KeepsLock(t, exc, value, via, frame) ==
    /\ result' = [result EXCEPT ![t] = LoginResult(t, exc, value, via, frame)]
    /\ pc' = [pc EXCEPT ![t] = "idle"]
    /\ fr' = [fr EXCEPT ![t] = IdleFrame]
    /\ lock' = IF exc = "none" THEN 0 ELSE lock

\* login() is left, by return or by an exception: the with statement
\* (authentication.py 45) releases _LOGIN_LOCK either way.
LoginExit(t, exc, value, via, frame) ==
    /\ result' = [result EXCEPT ![t] = LoginResult(t, exc, value, via, frame)]
    /\ pc' = [pc EXCEPT ![t] = "idle"]
    /\ fr' = [fr EXCEPT ![t] = IdleFrame]
    /\ lock' = 0

\* A thread calls login(store_session=..., pickle_name=...), with or without
\* username and password, and reaches the with statement.
LoginCall(t, store_session, pickle_name, creds) ==
    /\ pc[t] = "idle"
    /\ pc' = [pc EXCEPT ![t] = "acquire"]
    /\ fr' = [fr EXCEPT ![t] = [IdleFrame EXCEPT !.store_session = store_session,
                                                !.pickle_name = pickle_name,
                                                !.creds = creds,
                                                !.after_logout =
                                                    /\ result[t].op = "logout"
                                                    /\ result[t].exc = "none"]]
    /\ result' = [result EXCEPT ![t] = [NoResult EXCEPT !.op = "login_pending"]]
    /\ UNCHANGED <<logged_in, headers, SESSION_DATA, cache, lock, memo, issued>>
    /\ UNCHANGED pipeVars

\* A login() that does not wait for _LOGIN_LOCK.
LoginAcquire_NoWait(t) ==
    /\ pc[t] = "acquire"
    /\ lock' = t
    /\ \E d \in DeviceTokens : fr' = [fr EXCEPT ![t].device_token = d]
    /\ pc' = [pc EXCEPT ![t] = "cache"]
    /\ UNCHANGED <<logged_in, headers, SESSION_DATA, cache, result, memo, issued>>
    /\ UNCHANGED pipeVars

\* authentication.py 45-51: _LOGIN_LOCK is taken, then the device token drawn.
LoginAcquire(t) ==
    /\ pc[t] = "acquire"
    /\ lock = 0
    /\ lock' = t
    /\ \E d \in DeviceTokens : fr' = [fr EXCEPT ![t].device_token = d]
    /\ pc' = [pc EXCEPT ![t] = "cache"]
    /\ UNCHANGED <<logged_in, headers, SESSION_DATA, cache, result, memo, issued>>
    /\ UNCHANGED pipeVars

\* authentication.py 53-59, with the flag line 58 gives set_login_state.
\* pickle.load may raise out of login(); a record without token_type or
\* access_token raises KeyError at line 59, after lines 57-58 have run.
LoadCache(t, flag) ==
    /\ pc[t] = "cache"
    /\ LET file == cache[fr[t].pickle_name]
           got == load_cached_session(file)
           f == [fr[t] EXCEPT !.file = IF fr[t].store_session THEN file.kind ELSE "unread"]
       IN  IF fr[t].store_session /\ isfile(file)
           THEN IF got.exc # "none"
                THEN /\ LoginExit(t, got.exc, NoneV, "none", f)
                     /\ UNCHANGED <<SESSION_DATA, logged_in, headers>>
                ELSE IF ~Truthy(got.value)
                THEN /\ fr' = [fr EXCEPT ![t] = f]
                     /\ pc' = [pc EXCEPT ![t] = "post"]
                     /\ UNCHANGED <<SESSION_DATA, logged_in, headers, lock, result>>
                ELSE IF got.value.kind # "bundle"
                THEN /\ SESSION_DATA' = got.value
                     /\ logged_in' = flag
                     /\ LoginExit(t, "KeyError", NoneV, "none", f)
                     /\ UNCHANGED headers
                ELSE /\ SESSION_DATA' = got.value
                     /\ logged_in' = flag
                     /\ headers' = update_session(headers, "Authorization",
                                       AuthHeader(got.value.token_type,
                                                  got.value.access_token))
                     /\ fr' = [fr EXCEPT ![t] = [f EXCEPT !.cached_session = got.value]]
                     /\ pc' = [pc EXCEPT ![t] = "probe"]
                     /\ UNCHANGED <<lock, result>>
           ELSE /\ fr' = [fr EXCEPT ![t] = f]
                /\ pc' = [pc EXCEPT ![t] = "post"]
                /\ UNCHANGED <<SESSION_DATA, logged_in, headers, lock, result>>
    /\ UNCHANGED <<cache, memo, issued>>
    /\ UNCHANGED pipeVars

\* A login() that loads the cached bundle without set_login_state(True).
LoginCache_NoFlag(t) == LoadCache(t, logged_in)

\* authentication.py 53-59: the cached bundle is loaded into _SESSION_DATA,
\* the state set logged-in and the Authorization header written, before the
\* probe is sent.
LoginCache(t) == LoadCache(t, TRUE)

\* authentication.py 62-64: the probe and res.raise_for_status() on what
\* request_get hands back: the Response when the GET was answered 2xx; the
\* [None] default after an HTTP error (it has no raise_for_status:
\* AttributeError); the transport error request_get lets through.
ProbeSucceeds(st) ==
    LET res == request_get(<<[status |-> st, hasResults |-> TRUE, results |-> <<>>]>>,
                           "pagination", FALSE)
    IN  res.exc = "none" /\ res.value.t = "response"

\* authentication.py 61-69
LoginProbe(t, st) ==
    /\ pc[t] = "probe"
    /\ IF ProbeSucceeds(st)
       THEN /\ LoginExit(t, "none", Annotated(SESSION_DATA, fr[t].pickle_name), "cache",
                         [fr[t] EXCEPT !.probe = "ok"])
            /\ UNCHANGED <<logged_in, headers>>
       ELSE /\ logged_in' = FALSE
            /\ headers' = update_session(headers, "Authorization", NoneV)
            /\ fr' = [fr EXCEPT ![t].probe = "failed"]
            /\ pc' = [pc EXCEPT ![t] = "post"]
            /\ UNCHANGED <<lock, result>>
    /\ UNCHANGED <<SESSION_DATA, cache, memo, issued>>
    /\ UNCHANGED pipeVars

\* authentication.py 71-105: the payload is built (the credentials asked for
\* when they were not passed in), posted, and the answer dispatched on.
LoginPost(t, reply) ==
    /\ pc[t] = "post"
    /\ LET data == request_post(reply, FALSE, TRUE).value
           f == [fr[t] EXCEPT !.prompted = ~fr[t].creds,
                              !.posts = @ + 1,
                              !.data = data,
                              !.last = reply.status,
                              !.loop = IF Has(data, "mfa_required") THEN "mfa"
                                       ELSE IF Has(data, "challenge") THEN "challenge"
                                       ELSE "none"]
       IN  IF Falsy(data)
           THEN LoginExit(t, "TroubleConnecting", NoneV, "none", f)
           ELSE /\ fr' = [fr EXCEPT ![t] =
                           IF Has(data, "challenge") /\ ~Has(data, "mfa_required")
                           THEN [f EXCEPT !.challenge_id = data.f.challenge.id,
                                          !.remaining = data.f.challenge.remaining_attempts]
                           ELSE f]
                /\ pc' = [pc EXCEPT ![t] =
                           IF Has(data, "mfa_required") THEN "mfa"
                           ELSE IF Has(data, "challenge") THEN "challenge"
                           ELSE "finish"]
                /\ UNCHANGED <<lock, result>>
    /\ issued' = IssuedAfter(reply)
    /\ UNCHANGED <<logged_in, headers, SESSION_DATA, cache, memo>>
    /\ UNCHANGED pipeVars

\* authentication.py 126-134: one turn of the MFA loop.  request_post hands
\* back None for a rejected code (an error status) and for a transport
\* error, and res.status_code on None raises AttributeError.
LoginMfa(t, reply) ==
    /\ pc[t] = "mfa"
    /\ fr[t].codes < MaxPrompts
    /\ LET res == request_post(reply, FALSE, FALSE).value
           f == [fr[t] EXCEPT !.codes = @ + 1, !.posts = @ + 1, !.last = reply.status]
       IN  IF res = NoneV
           THEN LoginExit(t, "AttributeError", NoneV, "none", f)
           ELSE /\ IF res.status_code = 200
                   THEN /\ fr' = [fr EXCEPT ![t] = [f EXCEPT !.data = res.body]]
                        /\ pc' = [pc EXCEPT ![t] = "finish"]
                   ELSE /\ fr' = [fr EXCEPT ![t] = f]
                        /\ UNCHANGED pc
                /\ UNCHANGED <<lock, result>>
    /\ issued' = IssuedAfter(reply)
    /\ UNCHANGED <<logged_in, headers, SESSION_DATA, cache, memo>>
    /\ UNCHANGED pipeVars

\* authentication.py 136-146 with 22-26: one turn of the challenge loop.
\* 'challenge' not in res raises TypeError when request_post handed back
\* None.
LoginChallenge(t, reply) ==
    /\ pc[t] = "challenge"
    /\ fr[t].codes < MaxPrompts
    /\ LET res == request_post(reply, FALSE, TRUE).value
           f == [fr[t] EXCEPT !.codes = @ + 1, !.last = reply.status,
                              !.remaining =
                                  IF Has(reply.body, "challenge")
                                  THEN reply.body.f.challenge.remaining_attempts
                                  ELSE @]
       IN  IF res = NoneV
           THEN /\ LoginExit(t, "TypeError", NoneV, "none", f)
                /\ UNCHANGED headers
           ELSE IF ~Has(res, "challenge")
           THEN /\ headers' = update_session(headers, "X-ROBINHOOD-CHALLENGE-RESPONSE-ID",
                                             StrV(fr[t].challenge_id))
                /\ fr' = [fr EXCEPT ![t] = f]
                /\ pc' = [pc EXCEPT ![t] = "resubmit"]
                /\ UNCHANGED <<lock, result>>
           ELSE IF res.f.challenge.remaining_attempts <= 0
           THEN /\ LoginExit(t, "TooManyFailedAttempts", NoneV, "none", f)
                /\ UNCHANGED headers
           ELSE /\ fr' = [fr EXCEPT ![t] = f]
                /\ UNCHANGED <<pc, lock, result, headers>>
    /\ UNCHANGED <<logged_in, SESSION_DATA, cache, memo, issued>>
    /\ UNCHANGED pipeVars

\* authentication.py 143: the original payload is posted again.
LoginResubmit(t, reply) ==
    /\ pc[t] = "resubmit"
    /\ fr' = [fr EXCEPT ![t].data = request_post(reply, FALSE, TRUE).value,
                        ![t].posts = @ + 1,
                        ![t].last = reply.status]
    /\ pc' = [pc EXCEPT ![t] = "finish"]
    /\ issued' = IssuedAfter(reply)
    /\ UNCHANGED <<logged_in, headers, SESSION_DATA, cache, lock, result, memo>>
    /\ UNCHANGED pipeVars

\* A login() that pickles the bundle whatever store_session says.
LoginFinish_AlwaysSaves(t) ==
    /\ pc[t] = "finish"
    /\ LET data == fr[t].data
           bundle == Bundle(data.f.token_type, data.f.access_token,
                            data.f.refresh_token, fr[t].device_token)
       IN  IF data = NoneV
           THEN /\ LoginExit(t, "TypeError", NoneV, "none", fr[t])
                /\ UNCHANGED <<SESSION_DATA, headers, logged_in, cache>>
           ELSE IF Has(data, "access_token")
           THEN /\ SESSION_DATA' = bundle
                /\ headers' = update_session(headers, "Authorization",
                                  AuthHeader(data.f.token_type, data.f.access_token))
                /\ logged_in' = TRUE
                /\ cache' = [cache EXCEPT ![fr[t].pickle_name] = bundle]
                /\ LoginExit(t, "none", bundle, "full", fr[t])
           ELSE /\ LoginExit(t, "LoginError",
                             IF Has(data, "detail") THEN data.f.detail
                             ELSE StrV("Unknown login error"),
                             "none", fr[t])
                /\ UNCHANGED <<SESSION_DATA, headers, logged_in, cache>>
    /\ UNCHANGED <<memo, issued>>
    /\ UNCHANGED pipeVars

\* authentication.py 107-124.  'access_token' in data raises TypeError when
\* data is None (the resubmitted POST failed).
LoginFinish(t) ==
    /\ pc[t] = "finish"
    /\ LET data == fr[t].data
           bundle == Bundle(data.f.token_type, data.f.access_token,
                            data.f.refresh_token, fr[t].device_token)
       IN  IF data = NoneV
           THEN /\ LoginExit(t, "TypeError", NoneV, "none", fr[t])
                /\ UNCHANGED <<SESSION_DATA, headers, logged_in, cache>>
           ELSE IF Has(data, "access_token")
           THEN /\ SESSION_DATA' = bundle
                /\ headers' = update_session(headers, "Authorization",
                                  AuthHeader(data.f.token_type, data.f.access_token))
                /\ logged_in' = TRUE
                /\ cache' = IF fr[t].store_session
                            THEN [cache EXCEPT ![fr[t].pickle_name] = bundle]
                            ELSE cache
                /\ LoginExit(t, "none", bundle, "full", fr[t])
           ELSE /\ LoginExit(t, "LoginError",
                             IF Has(data, "detail") THEN data.f.detail
                             ELSE StrV("Unknown login error"),
                             "none", fr[t])
                /\ UNCHANGED <<SESSION_DATA, headers, logged_in, cache>>
    /\ UNCHANGED <<memo, issued>>
    /\ UNCHANGED pipeVars

\* ----------------------------------------------- authentication.py: logout
OpResult(op, exc, value, requests) ==
    [op |-> op, exc |-> exc, value |-> value, via |-> "none", did |-> NoSummary,
     pre |-> [logged_in |-> logged_in, SESSION_DATA |-> SESSION_DATA, headers |-> headers],
     requests |-> requests, json |-> FALSE, sent |-> Absent]

\* authentication.py 148-155: logout's own login_required reads
\* _SESSION_DATA, not the store's logged-in flag.
LogoutAllowed == SESSION_DATA # EmptySession

\* A logout() that leaves the Authorization header in place.
Logout_KeepsHeader(t) ==
    /\ pc[t] = "idle"
    /\ IF LogoutAllowed
       THEN /\ SESSION_DATA' = EmptySession
            /\ logged_in' = FALSE
            /\ result' = [result EXCEPT ![t] = OpResult("logout", "none", NoneV, 0)]
            /\ UNCHANGED headers
       ELSE /\ result' = [result EXCEPT ![t] = OpResult("logout", "NotLoggedIn", NoneV, 0)]
            /\ UNCHANGED <<SESSION_DATA, logged_in, headers>>
    /\ UNCHANGED <<cache, lock, pc, fr, memo, issued>>
    /\ UNCHANGED pipeVars

\* A logout() that removes the cache files.
Logout_DeletesCache(t) ==
    /\ pc[t] = "idle"
    /\ IF LogoutAllowed
       THEN /\ SESSION_DATA' = EmptySession
            /\ logged_in' = FALSE
            /\ headers' = update_session(headers, "Authorization", NoneV)
            /\ cache' = [p \in Profiles |-> NoFile]
            /\ result' = [result EXCEPT ![t] = OpResult("logout", "none", NoneV, 0)]
       ELSE /\ result' = [result EXCEPT ![t] = OpResult("logout", "NotLoggedIn", NoneV, 0)]
            /\ UNCHANGED <<SESSION_DATA, logged_in, headers, cache>>
    /\ UNCHANGED <<lock, pc, fr, memo, issued>>
    /\ UNCHANGED pipeVars

\* authentication.py 157-163
Logout(t) ==
    /\ pc[t] = "idle"
    /\ IF LogoutAllowed
       THEN /\ SESSION_DATA' = EmptySession
            /\ logged_in' = FALSE
            /\ headers' = update_session(headers, "Authorization", NoneV)
            /\ result' = [result EXCEPT ![t] = OpResult("logout", "none", NoneV, 0)]
       ELSE /\ result' = [result EXCEPT ![t] = OpResult("logout", "NotLoggedIn", NoneV, 0)]
            /\ UNCHANGED <<SESSION_DATA, logged_in, headers>>
    /\ UNCHANGED <<cache, lock, pc, fr, memo, issued>>
    /\ UNCHANGED pipeVars

\* ------------------------------------ login() and logout(), statement by statement
\* For threads that run side by side, the three assignments that end a
\* successful login() and the three of logout() are steps of their own:
\* logout() does not take _LOGIN_LOCK, and nothing else keeps another
\* thread from running between them.

\* authentication.py 108-115: 'access_token' in data, _SESSION_DATA = {...}
FinishData(t) ==
    /\ pc[t] = "finish"
    /\ LET data == fr[t].data
       IN  IF data = NoneV
           THEN /\ LoginExit(t, "TypeError", NoneV, "none", fr[t])
                /\ UNCHANGED SESSION_DATA
           ELSE IF Has(data, "access_token")
           THEN /\ SESSION_DATA' = Bundle(data.f.token_type, data.f.access_token,
                                          data.f.refresh_token, fr[t].device_token)
                /\ pc' = [pc EXCEPT ![t] = "finish_header"]
                /\ UNCHANGED <<fr, lock, result>>
           ELSE /\ LoginExit(t, "LoginError",
                             IF Has(data, "detail") THEN data.f.detail
                             ELSE StrV("Unknown login error"),
                             "none", fr[t])
                /\ UNCHANGED SESSION_DATA
    /\ UNCHANGED <<logged_in, headers, cache, memo, issued>>
    /\ UNCHANGED pipeVars

\* authentication.py 116: update_session('Authorization', ...)
FinishHeader(t) ==
    /\ pc[t] = "finish_header"
    /\ headers' = update_session(headers, "Authorization",
                      AuthHeader(fr[t].data.f.token_type, fr[t].data.f.access_token))
    /\ pc' = [pc EXCEPT ![t] = "finish_flag"]
    /\ UNCHANGED <<logged_in, SESSION_DATA, cache, lock, fr, result, memo, issued>>
    /\ UNCHANGED pipeVars

\* authentication.py 117-124: set_login_state(True), the save, and
\* return _SESSION_DATA, which is the module's variable as it is then.
FinishFlag(t) ==
    /\ pc[t] = "finish_flag"
    /\ logged_in' = TRUE
    /\ cache' = IF fr[t].store_session
                THEN [cache EXCEPT ![fr[t].pickle_name] = SESSION_DATA]
                ELSE cache
    /\ LoginExit(t, "none", SESSION_DATA, "full", fr[t])
    /\ UNCHANGED <<headers, SESSION_DATA, memo, issued>>
    /\ UNCHANGED pipeVars

\* authentication.py 148-155, 160-161: the decorator's test and
\* _SESSION_DATA = {}
LogoutData(t) ==
    /\ pc[t] = "idle"
    /\ IF LogoutAllowed
       THEN /\ SESSION_DATA' = EmptySession
            /\ pc' = [pc EXCEPT ![t] = "logout_flag"]
            /\ result' = [result EXCEPT ![t] = OpResult("logout_pending", "none", NoneV, 0)]
       ELSE /\ result' = [result EXCEPT ![t] = OpResult("logout", "NotLoggedIn", NoneV, 0)]
            /\ UNCHANGED <<SESSION_DATA, pc>>
    /\ UNCHANGED <<logged_in, headers, cache, lock, fr, memo, issued>>
    /\ UNCHANGED pipeVars

\* authentication.py 162: set_login_state(False)
LogoutFlag(t) ==
    /\ pc[t] = "logout_flag"
    /\ logged_in' = FALSE
    /\ pc' = [pc EXCEPT ![t] = "logout_header"]
    /\ UNCHANGED <<headers, SESSION_DATA, cache, lock, fr, result, memo, issued>>
    /\ UNCHANGED pipeVars

\* authentication.py 163: update_session('Authorization', None)
LogoutHeader(t) ==
    /\ pc[t] = "logout_header"
    /\ headers' = update_session(headers, "Authorization", NoneV)
    /\ pc' = [pc EXCEPT ![t] = "idle"]
    /\ result' = [result EXCEPT ![t] = [result[t] EXCEPT !.op = "logout"]]
    /\ UNCHANGED <<logged_in, SESSION_DATA, cache, lock, fr, memo, issued>>
    /\ UNCHANGED pipeVars

\* ------------------------------------ request_post, statement by statement
\* helper.py 190-192: a thread enters request_post; in JSON mode it writes
\* the session's Content-Type.
PostSwap(t, json) ==
    /\ pc[t] = "idle"
    /\ headers' = HeadersDuringPost(headers, json)
    /\ pc' = [pc EXCEPT ![t] = "post_send"]
    /\ result' = [result EXCEPT ![t] =
                    [NoResult EXCEPT !.op = "request_post_pending", !.json = json]]
    /\ UNCHANGED <<logged_in, SESSION_DATA, cache, lock, fr, memo, issued>>
    /\ UNCHANGED pipeVars

\* helper.py 193-198: session.post prepares the request with the session's
\* headers as they are when it is called; requests leaves a Content-Type
\* that the headers already hold alone, for a json= body as for a data= one.
PostSend(t, reply) ==
    /\ pc[t] = "post_send"
    /\ result' = [result EXCEPT ![t].value = request_post(reply, result[t].json, TRUE).value,
                                ![t].requests = 1,
                                ![t].sent = headers["Content-Type"]]
    /\ pc' = [pc EXCEPT ![t] = "post_finally"]
    /\ UNCHANGED <<logged_in, headers, SESSION_DATA, cache, lock, fr, memo, issued>>
    /\ UNCHANGED pipeVars

\* helper.py 202-205: the finally clause, and the return.
PostFinally(t) ==
    /\ pc[t] = "post_finally"
    /\ headers' = update_session(headers, "Content-Type", StrV(FormCT))
    /\ pc' = [pc EXCEPT ![t] = "idle"]
    /\ result' = [result EXCEPT ![t].op = "request_post"]
    /\ UNCHANGED <<logged_in, SESSION_DATA, cache, lock, fr, memo, issued>>
    /\ UNCHANGED pipeVars

\* ------------------------------------------------- the endpoint wrappers
\* helper.py 7-14: the decorator's test.
login_required == logged_in

\* The page a list endpoint answers a data call with.
DataPage(st) ==
    [status |-> st, hasResults |-> st = "ok",
     results |-> IF st = "ok" THEN <<Obj([id |-> StrV("a")])>> ELSE <<>>]

\* The body shared by the list getters: request_get(url, 'pagination')
\* then filter_data(data, info), here with info = None.
FetchList(st) ==
    LET got == request_get(<<DataPage(st)>>, "pagination", TRUE)
    IN  IF got.exc # "none" THEN got
        ELSE LET out == filter_data(got.value, NoneV)
             IN  [out EXCEPT !.fetched = got.fetched]

\* options.py 22-31: lru_cache is the outer decorator, so a memoized result
\* is handed back before login_required is reached; the body turns every
\* exception into RuntimeError.  lru_cache keeps results, not exceptions.
get_aggregate_positions(st) ==
    IF memo["get_aggregate_positions"] # Absent
    THEN Return(memo["get_aggregate_positions"], 0)
    ELSE IF ~login_required THEN Raise("NotLoggedIn", 0)
    ELSE LET got == FetchList(st)
         IN  IF got.exc # "none" THEN Raise("RuntimeError", got.fetched) ELSE got

\* account.py 49-55: login_required is the outer decorator.
get_all_positions(st) ==
    IF ~login_required THEN Raise("NotLoggedIn", 0)
    ELSE IF memo["get_all_positions"] # Absent
    THEN Return(memo["get_all_positions"], 0)
    ELSE FetchList(st)

\* A thread calls one of the memoized getters.
DataCall(t, op, st) ==
    /\ pc[t] = "idle"
    /\ LET got == IF op = "get_aggregate_positions" THEN get_aggregate_positions(st)
                  ELSE get_all_positions(st)
       IN  /\ result' = [result EXCEPT ![t] = OpResult(op, got.exc, got.value, got.fetched)]
           /\ memo' = IF got.exc = "none" THEN [memo EXCEPT ![op] = got.value] ELSE memo
    /\ UNCHANGED <<logged_in, headers, SESSION_DATA, cache, lock, pc, fr, issued>>
    /\ UNCHANGED pipeVars

\* ------------------------------------------------------------ id lookups
\* The lookups a caller makes by symbol.
Lookups == {"id_for_stock", "get_crypto_id"}

\* What the instruments endpoint answers for the symbol: the instrument, no
\* instrument, an error status, nothing.
InstrumentPages ==
    {DataPage(st) : st \in Statuses}
        \cup {[status |-> "ok", hasResults |-> TRUE, results |-> <<>>]}

\* What the currency-pairs endpoint answers: the pair of the symbol, an
\* error status, nothing.
PairsPage(st) ==
    [status |-> st, hasResults |-> st = "ok",
     results |-> IF st = "ok"
                 THEN <<Obj([asset_currency |-> Obj([code |-> StrV("BTC")]),
                             id |-> StrV("a")])>>
                 ELSE <<>>]
PairsPages == {PairsPage(st) : st \in Statuses}

\* helper.py 24-36: what lru_cache keeps is handed back before the body
\* runs; the body is request_get(url, 'indexzero', payload) and
\* filter_data(data, 'id').
id_for_stock(page) ==
    IF memo["id_for_stock"] # Absent THEN Return(memo["id_for_stock"], 0)
    ELSE LET got == request_get(<<page>>, "indexzero", TRUE)
         IN  IF got.exc # "none" THEN got
             ELSE [filter_data(got.value, StrV("id")) EXCEPT !.fetched = got.fetched]

\* crypto.py 24-29
get_crypto_currency_pairs(page) ==
    IF memo["get_crypto_currency_pairs"] # Absent
    THEN Return(memo["get_crypto_currency_pairs"], 0)
    ELSE LET got == request_get(<<page>>, "results", TRUE)
         IN  IF got.exc # "none" THEN got
             ELSE [filter_data(got.value, NoneV) EXCEPT !.fetched = got.fetched]

\* crypto.py 31-36, for info = 'id': the pairs whose asset_currency code is
\* the symbol, and filter_data of the first of them, or of None.
get_crypto_info(symbol, page) ==
    IF memo["get_crypto_info"] # Absent THEN Return(memo["get_crypto_info"], 0)
    ELSE LET got == get_crypto_currency_pairs(page)
         IN  IF got.exc # "none" THEN got
             ELSE LET all == got.value.items
                      hits == {i \in DOMAIN all : all[i].f.asset_currency.f.code = StrV(symbol)}
                      first == IF hits = {} THEN NoneV
                               ELSE all[CHOOSE i \in hits : \A j \in hits : i <= j]
                  IN  [filter_data(first, StrV("id")) EXCEPT !.fetched = got.fetched]

\* crypto.py 38-43
get_crypto_id(symbol, page) ==
    IF memo["get_crypto_id"] # Absent THEN Return(memo["get_crypto_id"], 0)
    ELSE get_crypto_info(symbol, page)

\* A thread looks up the id of a symbol.  A call that returns leaves its
\* value in every cache it went through; one that raises leaves none.
LookupCall(t, op, page) ==
    /\ pc[t] = "idle"
    /\ LET got == IF op = "id_for_stock" THEN id_for_stock(page)
                  ELSE get_crypto_id("BTC", page)
           pairs == get_crypto_currency_pairs(page)
       IN  /\ result' = [result EXCEPT ![t] = OpResult(op, got.exc, got.value, got.fetched)]
           /\ memo' = IF got.exc # "none" THEN memo
                      ELSE IF op = "id_for_stock"
                      THEN [memo EXCEPT !["id_for_stock"] = got.value]
                      ELSE [memo EXCEPT !["get_crypto_id"] = got.value,
                                        !["get_crypto_info"] = got.value,
                                        !["get_crypto_currency_pairs"] = pairs.value]
    /\ UNCHANGED <<logged_in, headers, SESSION_DATA, cache, lock, pc, fr, issued>>
    /\ UNCHANGED pipeVars

\* ------------------------------------------ globals.py: the session, reset
\* A header update made by any caller (helper.py 217-219).
UpdateSession(key, value) ==
    /\ headers' = update_session(headers, key, value)
    /\ call' = [NoCall EXCEPT !.method = "update_session"]
    /\ UNCHANGED <<pages, outcome>>
    /\ UNCHANGED authVars

\* globals.py 58-60 and 86-88: rg._session is replaced; helper.py reads
\* rg.session anew for every request and header update.
ResetSession ==
    /\ headers' = create_session
    /\ call' = [NoCall EXCEPT !.method = "reset_session"]
    /\ UNCHANGED <<pages, outcome>>
    /\ UNCHANGED authVars

\* ------------------------------------------------ tda/globals.py: sessions
MaxSessions == 2
TdaHeaderNames == {"Authorization", "apikey", "Content-Type"}
\* tda/globals.py 20-36 (of the default headers only Content-Type is named
\* here; Authorization and apikey are not among them).
tda_create_session ==
    [k \in TdaHeaderNames |->
        IF k = "Content-Type" THEN StrV("application/json;charset=UTF-8") ELSE Absent]
\* A session object that has not been created yet.
Unborn == [t |-> "unborn"]

\* What a TDA operation gave back: the exception it raised ("none" when it
\* returned), the value, the requests it issued and the headers they went
\* out with, and for login() the cache file and time it was called at and
\* the grant it asked the OAuth endpoint for.
NoTdaResult ==
    [op |-> "none", exc |-> "none", value |-> NoneV, requests |-> 0, sent |-> <<>>,
     pre |-> <<>>, at |-> 0, grant |-> "none", passcode |-> "",
     msg |-> <<>>, last |-> 0, count |-> 0, arg |-> "", ran |-> FALSE,
     replies |-> <<>>]
TdaResult(op, exc, value, requests, sent) ==
    [NoTdaResult EXCEPT !.op = op, !.exc = exc, !.value = value,
                        !.requests = requests, !.sent = sent]

\* tda/helper.py 58-60: the header is written on the object helper.py's
\* own name SESSION is bound to.
TdaUpdateSession(key, value) ==
    /\ sessions' = [sessions EXCEPT ![helper_SESSION][key] = value]
    /\ tda_result' = TdaResult("update_session", "none", NoneV, 0, <<>>)
    /\ UNCHANGED <<globals_SESSION, helper_SESSION, LOGGED_IN, pickle, now, api>>
    /\ UNCHANGED robinVars

\* tda/globals.py 53-56: a new session is created and the name SESSION of
\* globals.py bound to it.  tda/helper.py 12 imported SESSION by name
\* (from ... import SESSION), so its own binding stays on the object that
\* existed when helper.py was imported.
TdaResetSession ==
    /\ globals_SESSION < MaxSessions
    /\ globals_SESSION' = globals_SESSION + 1
    /\ sessions' = [sessions EXCEPT ![globals_SESSION + 1] = tda_create_session]
    /\ tda_result' = TdaResult("reset_session", "none", NoneV, 0, <<>>)
    /\ UNCHANGED <<helper_SESSION, LOGGED_IN, pickle, now, api>>
    /\ UNCHANGED robinVars

\* tda/helper.py 94-105: a request goes out with the headers of the object
\* helper.py's SESSION is bound to.
TdaRequest(st) ==
    /\ tda_result' = TdaResult("request", "none",
                               IF st = "ok" THEN ResponseV(1) ELSE NoneV, 1,
                               sessions[helper_SESSION])
    /\ api' = [api EXCEPT !.requests = 1]
    /\ UNCHANGED <<sessions, globals_SESSION, helper_SESSION, LOGGED_IN, pickle, now>>
    /\ UNCHANGED robinVars

\* ------------------------------------------- tda/authentication.py: login
MaxTicks == 2
\* tda/authentication.py 80-81: timedelta(minutes=30) and timedelta(days=60),
\* in minutes.
authorization_delta == 30
refresh_delta == 60 * 24 * 60

\* The Fernet keys a caller may pass as encryption_passcode.
Passcodes == {"key-1", "key-2"}
\* tda/authentication.py 20-22: a Fernet token made with a key.
encrypt_data(cipher_suite, data) == [t |-> "fernet", key |-> cipher_suite, plain |-> data]
\* tda/authentication.py 24-26: decrypt raises InvalidToken for a token made
\* with another key.
decrypt_data(cipher_suite, data) ==
    IF data.key = cipher_suite THEN Return(data.plain, 0) ELSE Raise("InvalidToken", 0)

\* The cache file: not there, there and empty (touched), or a pickled record.
NoPickle == [kind |-> "absent"]
EmptyPickle == [kind |-> "empty"]

\* A datetime handed to update_pickle_file, as opposed to None.
TimeV(at) == [t |-> "datetime", at |-> at]

\* A record whose refresh_timestamp is always the time of writing.
update_pickle_file_FreshStamps(cipher_suite, access_token, refresh_token, client_id, refresh_timestamp, t) ==
    [kind |-> "record",
     authorization_token |-> encrypt_data(cipher_suite, access_token),
     refresh_token |-> encrypt_data(cipher_suite, refresh_token),
     client_id |-> encrypt_data(cipher_suite, client_id),
     authorization_timestamp |-> t,
     refresh_timestamp |-> t]

\* tda/authentication.py 117-126 (and 47-56): the record written at time t;
\* refresh_timestamp is None when the caller passes none.
update_pickle_file(cipher_suite, access_token, refresh_token, client_id, refresh_timestamp, t) ==
    [kind |-> "record",
     authorization_token |-> encrypt_data(cipher_suite, access_token),
     refresh_token |-> encrypt_data(cipher_suite, refresh_token),
     client_id |-> encrypt_data(cipher_suite, client_id),
     authorization_timestamp |-> t,
     refresh_timestamp |-> IF refresh_timestamp = NoneV THEN t ELSE refresh_timestamp.at]

\* tda/authentication.py 34-40: touch(exist_ok=True) creates the file when
\* it is not there.
get_pickle_path(file) == IF file = NoPickle THEN EmptyPickle ELSE file

\* tda/authentication.py 110: f"Bearer {access_token}"
Bearer(access_token) == [t |-> "auth", token_type |-> "Bearer", access_token |-> access_token]

\* What the OAuth endpoint may answer to a refresh grant: a new access
\* token with or without a new refresh token, an error body, an error
\* status, nothing.
OauthReplies ==
    {[status |-> "ok", body |-> Obj([access_token |-> TokV(n), refresh_token |-> TokV(n)])] :
        n \in {k \in {api.issued + 1} : k <= MaxTokens}}
    \cup {[status |-> "ok", body |-> Obj([access_token |-> TokV(n)])] :
             n \in {k \in {api.issued + 1} : k <= MaxTokens}}
    \cup {[status |-> "ok", body |-> Obj([error |-> StrV("invalid_grant")])],
          [status |-> "http_error", body |-> NoneV],
          [status |-> "transport", body |-> NoneV]}

\* tda/helper.py 120-131: every exception becomes (None, e).
request_data(reply) == IF reply.status = "ok" THEN reply.body ELSE NoneV

\* The clock moves on.
Tick(d) ==
    /\ api.ticks < MaxTicks
    /\ now' = now + d
    /\ api' = [api EXCEPT !.ticks = @ + 1]
    /\ tda_result' = TdaResult("tick", "none", NoneV, 0, <<>>)
    /\ UNCHANGED <<sessions, globals_SESSION, helper_SESSION, LOGGED_IN, pickle>>
    /\ UNCHANGED robinVars

\* tda/authentication.py 42-61
login_first_time(encryption_passcode) ==
    /\ pickle' = update_pickle_file(encryption_passcode, TokV(0), TokV(0), "client-1",
                                    NoneV, now)
    /\ tda_result' = [TdaResult("login_first_time", "none", NoneV, 0, <<>>)
                         EXCEPT !.pre = pickle, !.at = now,
                                !.passcode = encryption_passcode]
    /\ UNCHANGED <<sessions, globals_SESSION, helper_SESSION, LOGGED_IN, now, api>>
    /\ UNCHANGED robinVars

\* tda/authentication.py 63-115.  get_pickle_path has touched the file
\* before it is opened, so open() finds a file in every case and pickle.load
\* raises EOFError on an empty one; request_data hands back None for a
\* failed request, and the membership tests at 93 and 105 raise TypeError on
\* it.
TdaLogin(encryption_passcode, reply) ==
    LET file == get_pickle_path(pickle)
        Done(exc, value, requests, grant) ==
            [TdaResult("login", exc, value, requests, <<>>)
                EXCEPT !.pre = pickle, !.at = now, !.grant = grant,
                       !.passcode = encryption_passcode]
        Fail(exc, requests, grant) ==
            /\ tda_result' = Done(exc, NoneV, requests, grant)
            /\ pickle' = file
            /\ api' = [api EXCEPT !.requests = requests]
            /\ UNCHANGED <<sessions, LOGGED_IN>>
        Succeed(access_token, client_id, file2, requests, grant) ==
            /\ tda_result' = Done("none", Bearer(access_token), requests, grant)
            /\ pickle' = file2
            /\ sessions' = [sessions EXCEPT
                               ![helper_SESSION]["Authorization"] = Bearer(access_token),
                               ![helper_SESSION]["apikey"] = StrV(client_id)]
            /\ LOGGED_IN' = TRUE
            /\ api' = [api EXCEPT !.requests = requests,
                                  !.issued = IF Has(request_data(reply), "access_token")
                                                  /\ requests = 1
                                             THEN @ + 1 ELSE @]
    IN  /\ IF file = EmptyPickle
           THEN Fail("EOFError", 0, "none")
           ELSE LET access == decrypt_data(encryption_passcode, file.authorization_token)
                    refresh == decrypt_data(encryption_passcode, file.refresh_token)
                    client == decrypt_data(encryption_passcode, file.client_id)
                    data == request_data(reply)
                IN  IF access.exc # "none"
                    THEN Fail("InvalidToken", 0, "none")
                    ELSE IF now - file.refresh_timestamp > refresh_delta
                    THEN IF data = NoneV THEN Fail("TypeError", 1, "offline")
                         ELSE IF ~Has(data, "access_token") \/ ~Has(data, "refresh_token")
                         THEN Fail("AuthenticationError", 1, "offline")
                         ELSE Succeed(data.f.access_token, client.value,
                                      update_pickle_file(encryption_passcode,
                                          data.f.access_token, data.f.refresh_token,
                                          client.value, NoneV, now),
                                      1, "offline")
                    ELSE IF now - file.authorization_timestamp > authorization_delta
                    THEN IF data = NoneV THEN Fail("TypeError", 1, "access")
                         ELSE IF ~Has(data, "access_token")
                         THEN Fail("AuthenticationError", 1, "access")
                         ELSE Succeed(data.f.access_token, client.value,
                                      update_pickle_file(encryption_passcode,
                                          data.f.access_token, refresh.value,
                                          client.value, TimeV(file.refresh_timestamp), now),
                                      1, "access")
                    ELSE Succeed(access.value, client.value, file, 0, "none")
        /\ UNCHANGED <<globals_SESSION, helper_SESSION, now>>
        /\ UNCHANGED robinVars

\* ------------------------------------------------ tda: accounts, orders, markets
MaxHoursCalls == 2
\* tda/accounts.py 22: calls allowed per window.
CALLS == 120
\* tda/accounts.py 26: failures that open the circuit breaker.
FAILURE_THRESHOLD == 5
\* tda/orders.py 41, tda/markets.py 57: stop_after_attempt(3).
stop_after_attempt == 3

\* The entries other calls have left in the "accounts_api" sorted set when
\* a call arrives.
RedisCounts == {0, 1, CALLS - 1, CALLS}
\* HTTP statuses the API answers with; 0 stands for a connection that
\* failed before any status (aiohttp.ClientError).
ApiStatuses == {200, 404, 429, 500, 0}
Markets == {"EQUITY", "BOND"}

\* tda/helper.py 37-47: the wrapper reads target_args['jsonify'], which is
\* a KeyError for a function that has no jsonify parameter.
format_inputs(parameters) == IF "jsonify" \in parameters THEN "none" ELSE "KeyError"

\* tda/helper.py 71-78
tda_login_required == IF LOGGED_IN THEN "none" ELSE "TDAAPIError"
LoginMessage(name) == <<name, " can only be called when logged in">>

\* tda/orders.py 46-55, tda/markets.py 62-72: the TDAAPIError a failed
\* attempt raises.
ErrorMessage(status) ==
    IF status = 0 THEN <<"API request failed: ">>
    ELSE IF status = 429 THEN <<"Rate limit exceeded">>
    ELSE IF status >= 500 THEN <<"Server error">>
    ELSE <<"API error: ", status>>

\* A request that gives up after its first attempt.
ClientRequest_NoRetry(replies) ==
    [exc |-> IF replies[1] = 200 THEN "none" ELSE "RetryError",
     value |-> IF replies[1] = 200 THEN Obj([orderId |-> StrV("123")]) ELSE NoneV,
     msg |-> IF replies[1] = 200 THEN <<>>
             ELSE <<"RetryError[", ErrorMessage(replies[1]), "]">>,
     requests |-> 1, last |-> replies[1]]

\* tda/orders.py 41-55, tda/markets.py 57-72: TDAClientSession.request
\* under @retry(stop=stop_after_attempt(3)): every attempt that raises is
\* tried again, and when the last one has raised tenacity raises
\* RetryError (reraise is not set).
ClientRequest(replies) ==
    LET ok == {i \in 1..stop_after_attempt : replies[i] = 200}
        n == IF ok = {} THEN stop_after_attempt
             ELSE CHOOSE i \in ok : \A j \in ok : i <= j
    IN  [exc |-> IF ok = {} THEN "RetryError" ELSE "none",
         value |-> IF ok = {} THEN NoneV ELSE Obj([orderId |-> StrV("123")]),
         msg |-> IF ok = {} THEN <<"RetryError[", ErrorMessage(replies[n]), "]">> ELSE <<>>,
         requests |-> n, last |-> replies[n]]

ApiResult(op, r) ==
    [TdaResult(op, r.exc, r.value, r.requests, <<>>) EXCEPT !.msg = r.msg, !.last = r.last]
ApiRaise(op, exc, msg) ==
    [TdaResult(op, exc, NoneV, 0, <<>>) EXCEPT !.msg = msg]

\* Other clients of the Redis key, and the expiry of its entries.
RedisWindow(n) ==
    /\ api.calls # n
    /\ api' = [api EXCEPT !.calls = n]
    /\ tda_result' = TdaResult("redis", "none", NoneV, 0, <<>>)
    /\ UNCHANGED <<sessions, globals_SESSION, helper_SESSION, LOGGED_IN, pickle, now>>
    /\ UNCHANGED robinVars

\* tda/orders.py 41-55: a request made on a TDAClientSession.
TdaClientRequest(replies) ==
    /\ tda_result' = [ApiResult("client_request", ClientRequest(replies))
                         EXCEPT !.replies = replies]
    /\ api' = [api EXCEPT !.requests = ClientRequest(replies).requests]
    /\ UNCHANGED <<sessions, globals_SESSION, helper_SESSION, LOGGED_IN, pickle, now>>
    /\ UNCHANGED robinVars

\* tda/orders.py 57-70: login_required, then format_inputs, then the body.
place_order(replies) ==
    LET r == IF tda_login_required # "none"
             THEN ApiRaise("place_order", "TDAAPIError", LoginMessage("place_order"))
             ELSE IF format_inputs({"account_id", "order_payload"}) # "none"
             THEN ApiRaise("place_order", "KeyError", <<"jsonify">>)
             ELSE ApiResult("place_order", ClientRequest(replies))
    IN  /\ tda_result' = r
        /\ api' = [api EXCEPT !.requests = r.requests]
        /\ UNCHANGED <<sessions, globals_SESSION, helper_SESSION, LOGGED_IN, pickle, now>>
        /\ UNCHANGED robinVars

\* The status argument of get_orders_for_account: left out, an OrderStatus
\* member, the name of one, a string that names none.
StatusArgs == {"none", "member", "name", "invalid"}

\* tda/orders.py 103-143: login_required, then format_inputs, then the body,
\* which raises ValueError for a status that is neither a member nor the
\* name of one before it opens a client session.
get_orders_for_account(status, replies) ==
    LET r == IF tda_login_required # "none"
             THEN ApiRaise("get_orders_for_account", "TDAAPIError",
                           LoginMessage("get_orders_for_account"))
             ELSE IF format_inputs({"account_id", "max_results", "from_time",
                                    "to_time", "status"}) # "none"
             THEN ApiRaise("get_orders_for_account", "KeyError", <<"jsonify">>)
             ELSE IF status = "invalid"
             THEN ApiRaise("get_orders_for_account", "ValueError",
                           <<"Invalid status value">>)
             ELSE ApiResult("get_orders_for_account", ClientRequest(replies))
    IN  /\ tda_result' = [r EXCEPT !.arg = status]
        /\ api' = [api EXCEPT !.requests = r.requests]
        /\ UNCHANGED <<sessions, globals_SESSION, helper_SESSION, LOGGED_IN, pickle, now>>
        /\ UNCHANGED robinVars

\* tda/markets.py 92-109: login_required, then format_inputs, then the
\* lru_cache: a miss calls the async function, which makes a coroutine, and
\* keeps that coroutine; a hit hands back the kept coroutine, and awaiting a
\* coroutine a second time raises RuntimeError.
get_hours_for_market(market, replies) ==
    LET r == IF tda_login_required # "none"
             THEN ApiRaise("get_hours_for_market", "TDAAPIError",
                           LoginMessage("get_hours_for_market"))
             ELSE IF format_inputs({"market", "date"}) # "none"
             THEN ApiRaise("get_hours_for_market", "KeyError", <<"jsonify">>)
             ELSE IF api.hours_cache[market] # "absent"
             THEN ApiRaise("get_hours_for_market", "RuntimeError",
                           <<"cannot reuse already awaited coroutine">>)
             ELSE ApiResult("get_hours_for_market", ClientRequest(replies))
        reached == tda_login_required = "none"
                     /\ format_inputs({"market", "date"}) = "none"
    IN  /\ Len(api.hours) < MaxHoursCalls
        /\ tda_result' = r
        /\ api' = [api EXCEPT
                     !.requests = r.requests,
                     !.hours_cache[market] = IF reached THEN "coroutine" ELSE @,
                     !.hours = Append(@, [market |-> market, exc |-> r.exc,
                                          value |-> r.value, requests |-> r.requests,
                                          logged_in |-> LOGGED_IN,
                                          healthy |-> replies[1] = 200])]
        /\ UNCHANGED <<sessions, globals_SESSION, helper_SESSION, LOGGED_IN, pickle, now>>
        /\ UNCHANGED robinVars

\* tda/accounts.py 66-67: the wrapper raises before get_accounts is entered,
\* so the except clauses of its body (86-88) are not around the raise.
RateLimited(count) ==
    [exc |-> "RateLimitExceeded", value |-> NoneV, requests |-> 0]

\* tda/accounts.py 54-97.  From the outside in: the circuit breaker, the
\* rate-limit wrapper, login_required, format_inputs, the body.  The
\* pipeline holds four commands when the key exists and three when it does
\* not, and its results are unpacked into four names (65).  elapsed says
\* whether an open breaker's reset timeout has passed; ran, whether the
\* rate-limit wrapper went on to call the function it wraps.  A call arrives at
\* one of the fills of the window that RedisCounts lists.
get_accounts(elapsed, st) ==
    LET key_exists == api.calls > 0
        count == api.calls + 1
        blocked == api.breaker = "open" /\ ~elapsed
        inner ==
            IF ~key_exists
            THEN [exc |-> "ValueError", value |-> NoneV, requests |-> 0]
            ELSE IF count > CALLS THEN RateLimited(count)
            ELSE IF tda_login_required # "none"
            THEN [exc |-> "TDAAPIError", value |-> NoneV, requests |-> 0]
            ELSE IF st = "ok"
            THEN [exc |-> "none", value |-> <<ResponseV(1), NoneV>>, requests |-> 1]
            ELSE [exc |-> "none", value |-> <<NoneV, <<"request failed: ", st>>>>,
                  requests |-> 1]
        failures == IF inner.exc = "none" THEN 0 ELSE api.failures + 1
        trips == inner.exc # "none"
                   /\ (api.breaker = "open" \/ failures >= FAILURE_THRESHOLD)
    IN  /\ api.calls \in RedisCounts
        /\ IF blocked
           THEN /\ tda_result' = ApiRaise("get_accounts", "CircuitBreakerError", <<>>)
                /\ api' = [api EXCEPT !.requests = 0]
           ELSE /\ tda_result' =
                     [TdaResult("get_accounts",
                                IF trips THEN "CircuitBreakerError" ELSE inner.exc,
                                inner.value, inner.requests,
                                IF inner.requests = 1 THEN sessions[helper_SESSION] ELSE <<>>)
                        EXCEPT !.count = count,
                               !.ran = key_exists /\ count <= CALLS]
                /\ api' = [api EXCEPT
                             !.calls = count,
                             !.requests = inner.requests,
                             !.failures = IF failures > FAILURE_THRESHOLD
                                          THEN FAILURE_THRESHOLD ELSE failures,
                             !.breaker = IF trips THEN "open"
                                         ELSE IF inner.exc = "none" THEN "closed" ELSE @]
        /\ UNCHANGED <<sessions, globals_SESSION, helper_SESSION, LOGGED_IN, pickle, now>>
        /\ UNCHANGED robinVars

\* The TDA modules right after import: tda/globals.py 11 and 39,
\* tda/helper.py 12; no cache file has been written.
InitTda ==
    /\ sessions = [i \in 1..MaxSessions |-> IF i = 1 THEN tda_create_session ELSE Unborn]
    /\ globals_SESSION = 1
    /\ helper_SESSION = 1
    /\ LOGGED_IN = FALSE
    /\ pickle = [kind |-> "absent"]
    /\ now = 0
    /\ api = [ticks |-> 0, issued |-> 0, requests |-> 0, calls |-> 0,
              failures |-> 0, breaker |-> "closed",
              hours_cache |-> [market \in Markets |-> "absent"], hours |-> <<>>]
    /\ tda_result = NoTdaResult

\* -------------------------------------------------------------------- Init
\* The memoized endpoint wrappers of the model.
Memoized == {"get_aggregate_positions", "get_all_positions"}
\* The caches of the id lookups: the lru_caches of id_for_stock,
\* get_crypto_currency_pairs and get_crypto_info, and SYMBOL_TO_ID_CACHE.
LookupCaches ==
    {"id_for_stock", "get_crypto_currency_pairs", "get_crypto_info", "get_crypto_id"}

\* The module-level state right after import: globals.py 11-15 and 63,
\* authentication.py 13-14.
InitProcess ==
    /\ logged_in = FALSE
    /\ headers = create_session
    /\ SESSION_DATA = EmptySession
    /\ lock = 0
    /\ pc = [t \in Threads |-> "idle"]
    /\ fr = [t \in Threads |-> IdleFrame]
    /\ result = [t \in Threads |-> NoResult]
    /\ memo = [f \in Memoized \cup LookupCaches |-> Absent]
    /\ issued = 0
    /\ call = NoCall
    /\ outcome = NoOutcome
    /\ InitTda

\* The request pipeline against every page chain the server may hold.
InitPipeline ==
    /\ InitProcess
    /\ pages \in PageChains
    /\ cache = [p \in Profiles |-> NoFile]

NextPipeline ==
    \/ \E dataType \in DataTypes, jsonify_data \in BOOLEAN :
          RequestGet(dataType, jsonify_data)
    \/ \E reply \in DataReplies, json \in BOOLEAN, jsonify_data \in BOOLEAN :
          RequestPost(reply, json, jsonify_data)
    \/ \E reply \in DataReplies : RequestDelete(reply)

SpecPipeline == InitPipeline /\ [][NextPipeline]_vars

\* filter_data over the values request_get hands to it: None, a scalar, an
\* object, and lists of objects and nulls of up to MaxItems elements, with
\* info not given, a key some objects have, or a key none has.
MaxItems == 2
NumV(n) == [t |-> "num", n |-> n]
FilterKeys == {"a", "b"}
FilterObjects ==
    {Obj(f) : f \in UNION {[K -> {NumV(1), NumV(2)}] : K \in SUBSET FilterKeys}}
FilterData_Inputs ==
    {NoneV, StrV("x")} \cup FilterObjects
        \cup {ListV(l) : l \in SeqsUpTo(FilterObjects \cup {NoneV}, MaxItems)}
FilterInfos == {NoneV, StrV("a"), StrV("b"), StrV("missing")}

InitFilter ==
    /\ logged_in = FALSE
    /\ headers = create_session
    /\ SESSION_DATA = EmptySession
    /\ lock = 0
    /\ pc = [t \in Threads |-> "idle"]
    /\ fr = [t \in Threads |-> IdleFrame]
    /\ result = [t \in Threads |-> NoResult]
    /\ memo = [f \in Memoized \cup LookupCaches |-> Absent]
    /\ issued = 0
    /\ pages = <<DataPage("ok")>>
    /\ cache = [p \in Profiles |-> NoFile]
    /\ outcome = NoOutcome
    /\ InitTda
    /\ \E data \in FilterData_Inputs, info \in FilterInfos :
          call = [NoCall EXCEPT !.method = "filter_data_called",
                                !.data = data, !.info = info]
NextFilter == FilterData
SpecFilter == InitFilter /\ [][NextFilter]_vars

\* The session and login state machine.  The cache directory may hold a
\* bundle pickled by an earlier run of the program.
InitAuth ==
    /\ InitProcess
    /\ pages = <<DataPage("ok")>>
    /\ cache \in [Profiles -> {NoFile, OldBundle}]

\* The steps of a login() call under way.
LoginStep(t) ==
    \/ LoginAcquire(t)
    \/ LoginCache(t)
    \/ \E st \in Statuses : LoginProbe(t, st)
    \/ \E reply \in LoginReplies : LoginPost(t, reply)
    \/ \E reply \in MfaReplies : LoginMfa(t, reply)
    \/ \E reply \in ChallengeReplies(fr[t].challenge_id, fr[t].remaining) :
          LoginChallenge(t, reply)
    \/ \E reply \in LoginReplies : LoginResubmit(t, reply)
    \/ LoginFinish(t)

\* One thread, the synchronous use the library is written for: logins of
\* every kind, and logouts.
NextAuth ==
    \/ \E store_session \in BOOLEAN, pickle_name \in Profiles, creds \in BOOLEAN :
          LoginCall(1, store_session, pickle_name, creds)
    \/ LoginStep(1)
    \/ Logout(1)
SpecAuth == InitAuth /\ [][NextAuth]_vars

\* The same calls for the default profile, over a cache file of any kind.
CacheFiles ==
    {NoFile, OldBundle, UnreadableFile, TruncatedFile, CorruptFile, PartialRecord,
     EmptyRecord}
InitCache ==
    /\ InitProcess
    /\ pages = <<DataPage("ok")>>
    /\ \E file \in CacheFiles : cache = [p \in Profiles |-> IF p = "" THEN file ELSE NoFile]
NextCache ==
    \/ \E store_session \in BOOLEAN : LoginCall(1, store_session, "", TRUE)
    \/ LoginStep(1)
    \/ Logout(1)
SpecCache == InitCache /\ [][NextCache]_vars

\* One thread: logins, logouts and calls of the memoized getters.
NextData ==
    \/ \E store_session \in BOOLEAN : LoginCall(1, store_session, "", TRUE)
    \/ LoginStep(1)
    \/ Logout(1)
    \/ \E op \in Memoized, st \in Statuses : DataCall(1, op, st)
SpecData == InitAuth /\ [][NextData]_vars

\* Two threads calling login(username, password) with the default
\* store_session=True, and logout(), at once, over a cache that holds a
\* bundle for the default profile.
InitThreads ==
    /\ InitProcess
    /\ pages = <<DataPage("ok")>>
    /\ cache = [p \in Profiles |-> IF p = "" THEN OldBundle ELSE NoFile]

NextThreads ==
    \E t \in Threads :
        \/ LoginCall(t, TRUE, "", TRUE)
        \/ LoginStep(t)
        \/ Logout(t)
SpecThreads == InitThreads /\ [][NextThreads]_vars

\* Two threads, one that logs in (without a cache file) and one that logs
\* out, statement by statement.
NextRace ==
    \/ LoginCall(1, FALSE, "", TRUE)
    \/ LoginAcquire(1)
    \/ LoginCache(1)
    \/ \E reply \in LoginReplies : LoginPost(1, reply)
    \/ \E reply \in MfaReplies : LoginMfa(1, reply)
    \/ \E reply \in ChallengeReplies(fr[1].challenge_id, fr[1].remaining) :
          LoginChallenge(1, reply)
    \/ \E reply \in LoginReplies : LoginResubmit(1, reply)
    \/ FinishData(1)
    \/ FinishHeader(1)
    \/ FinishFlag(1)
    \/ LogoutData(2)
    \/ LogoutFlag(2)
    \/ LogoutHeader(2)
SpecRace == InitAuth /\ [][NextRace]_vars

\* The shared sessions of both clients: header updates, resets, requests.
InitSession ==
    /\ InitProcess
    /\ pages = <<DataPage("ok")>>
    /\ cache = [p \in Profiles |-> NoFile]
HeaderValues == {StrV("Bearer tok-1"), NoneV}
SessionKeys == {"Authorization", "Content-Type"}
NextSession ==
    \/ \E key \in SessionKeys, value \in HeaderValues : UpdateSession(key, value)
    \/ ResetSession
    \/ \E dataType \in DataTypes, jsonify_data \in BOOLEAN :
          RequestGet(dataType, jsonify_data)
    \/ \E key \in SessionKeys, value \in HeaderValues : TdaUpdateSession(key, value)
    \/ TdaResetSession
    \/ \E st \in Statuses : TdaRequest(st)
SpecSession == InitSession /\ [][NextSession]_vars

\* Threads that look up ids by symbol.
NextLookup ==
    \E t \in Threads :
        \/ \E page \in InstrumentPages : LookupCall(t, "id_for_stock", page)
        \/ \E page \in PairsPages : LookupCall(t, "get_crypto_id", page)
SpecLookup == InitSession /\ [][NextLookup]_vars

\* Threads that call request_post on the shared session side by side.
NextPosts ==
    \E t \in Threads :
        \/ \E json \in BOOLEAN : PostSwap(t, json)
        \/ \E reply \in DataReplies : PostSend(t, reply)
        \/ PostFinally(t)
SpecPosts == InitSession /\ [][NextPosts]_vars

\* The TDA login over its encrypted cache, as time passes.
TickSteps == {1, authorization_delta, refresh_delta}
NextTdaLogin ==
    \/ \E d \in TickSteps : Tick(d)
    \/ \E encryption_passcode \in Passcodes : login_first_time(encryption_passcode)
    \/ \E encryption_passcode \in Passcodes, reply \in OauthReplies :
          TdaLogin(encryption_passcode, reply)
SpecTdaLogin == InitSession /\ [][NextTdaLogin]_vars

\* The TDA order and market getters, with login over the cache file to get
\* logged in.
ReplySeqs == [1..stop_after_attempt -> ApiStatuses]
NextTdaAccounts ==
    \/ login_first_time("key-1")
    \/ \E reply \in OauthReplies : TdaLogin("key-1", reply)
    \/ \E n \in RedisCounts : RedisWindow(n)
    \/ \E elapsed \in BOOLEAN, st \in Statuses : get_accounts(elapsed, st)
SpecTdaAccounts == InitSession /\ [][NextTdaAccounts]_vars

NextTdaApi ==
    \/ login_first_time("key-1")
    \/ \E reply \in OauthReplies : TdaLogin("key-1", reply)
    \/ \E status \in StatusArgs, replies \in ReplySeqs :
          get_orders_for_account(status, replies)
    \/ \E market \in Markets, replies \in ReplySeqs : get_hours_for_market(market, replies)
SpecTdaApi == InitSession /\ [][NextTdaApi]_vars

\* Requests on a TDAClientSession, made directly and by place_order.
NextRetry ==
    \/ login_first_time("key-1")
    \/ \E reply \in OauthReplies : TdaLogin("key-1", reply)
    \/ \E replies \in ReplySeqs : TdaClientRequest(replies)
    \/ \E replies \in ReplySeqs : place_order(replies)
SpecRetry == InitSession /\ [][NextRetry]_vars

\* ------------------------------------------------------- pipeline: claims
RECURSIVE ConcatResults(_, _)
\* The results of pages 1..k of a chain, in page order.
ConcatResults(pgs, k) ==
    IF k = 0 THEN <<>> ELSE ConcatResults(pgs, k - 1) \o ResultsOr(pgs, k, <<>>)

\* The first page of the chain that a GET fails on, 0 when every page answers.
FirstFailed(pgs) ==
    IF \A i \in DOMAIN pgs : pgs[i].status = "ok" THEN 0
    ELSE CHOOSE i \in DOMAIN pgs :
           /\ pgs[i].status # "ok"
           /\ \A j \in 1..(i - 1) : pgs[j].status = "ok"

PaginationCall ==
    call.method = "get" /\ call.dataType = "pagination" /\ call.jsonify_data

\* C1: a paginated GET over a chain of pages that all answer returns the
\* concatenation of every page's results, in page order.
C1_PaginationConcat ==
    (PaginationCall /\ FirstFailed(pages) = 0)
        => /\ outcome.exc = "none"
           /\ outcome.value = ListV(ConcatResults(pages, Len(pages)))

\* C2: a paginated GET whose continuation page k fails returns exactly the
\* results of the pages 1..k-1 before it, and raises nothing.
C2_PaginationFaultTolerant ==
    (PaginationCall /\ FirstFailed(pages) > 1)
        => /\ outcome.exc = "none"
           /\ outcome.value = ListV(ConcatResults(pages, FirstFailed(pages) - 1))

\* C3: no pipeline call raises when the HTTP call under it fails.
C3_NeverRaises ==
    (call.method # "none" /\ call.status # "ok") => outcome.exc = "none"

\* The empty value of a shape as the claim has it: null for the object
\* shapes, the empty list for the list shapes.
EmptyOfShape(dataType) ==
    IF dataType \in {"results", "pagination"} THEN ListV(<<>>) ELSE NoneV

InLogin == {"cache", "probe", "post", "mfa", "challenge", "resubmit", "finish"}

\* C5: a login() whose probe of the cached bundle succeeded has returned
\* that bundle annotated as a cached login, with the state logged-in and the
\* Authorization header written from the cached token, and has neither asked
\* for the credentials nor posted to the login endpoint.
C5_CachedLogin ==
    \A t \in Threads :
        (result[t].op = "login" /\ result[t].did.probe = "ok")
            => LET cached == result[t].did.cached_session
               IN  /\ result[t].did.store_session
                   /\ cached.kind = "bundle"
                   /\ result[t].exc = "none"
                   /\ result[t].via = "cache"
                   /\ result[t].value = Annotated(cached, result[t].did.pickle_name)
                   /\ logged_in
                   /\ SESSION_DATA = cached
                   /\ headers["Authorization"]
                        = AuthHeader(cached.token_type, cached.access_token)
                   /\ ~result[t].did.prompted
                   /\ result[t].did.posts = 0

C5_Witness ==
    /\ result[1].op = "login" /\ result[1].did.probe = "ok"
    /\ result[1].via = "cache" /\ logged_in
    /\ cache[""] = OldBundle

\* C6: once the probe of a cached bundle has failed, the state is
\* logged-out and neither the Authorization header nor the held session data
\* carries the stale bundle, while the full login runs and after it ended.
C6_StaleCacheCleared ==
    \A t \in Threads :
        /\ (pc[t] \in InLogin /\ fr[t].probe = "failed")
              => /\ SESSION_DATA # fr[t].cached_session
                 /\ headers["Authorization"].t # "auth"
                 /\ ~logged_in
        /\ (result[t].op = "login" /\ result[t].did.probe = "failed")
              => SESSION_DATA # result[t].did.cached_session

\* C7: a logout() called in the logged-out state raises the not-logged-in
\* error and leaves flag, headers and session data as they were.
C7_LogoutPrecondition ==
    \A t \in Threads :
        (result[t].op = "logout" /\ ~result[t].pre.logged_in)
            => /\ result[t].exc = "NotLoggedIn"
               /\ logged_in = result[t].pre.logged_in
               /\ headers = result[t].pre.headers
               /\ SESSION_DATA = result[t].pre.SESSION_DATA

\* C8: a getter that requires login, called in the logged-out state, raises
\* the not-logged-in error and issues no HTTP request.
C8_LoginRequired ==
    \A t \in Threads :
        (result[t].op \in Memoized /\ ~result[t].pre.logged_in)
            => result[t].exc = "NotLoggedIn" /\ result[t].requests = 0

\* C9: at most one login() call is inside the locked sequence, and it is the
\* holder of _LOGIN_LOCK; any other call stands before the with statement.
C9_SingleLogin ==
    /\ Cardinality({t \in Threads : pc[t] \in InLogin}) <= 1
    /\ \A t \in Threads : pc[t] \in InLogin => lock = t

C9_Witness ==
    /\ pc[1] = "mfa" /\ lock = 1
    /\ pc[2] = "acquire"

\* C10: a login() that entered the MFA loop never ends on a rejected code:
\* the answer its latest POST got is never an error status.
C10_MfaRetriesAfterRejection ==
    \A t \in Threads :
        (result[t].op = "login" /\ result[t].did.loop = "mfa")
            => result[t].did.last # "http_error"

\* C11: a login() that left the challenge loop on a rejected code left it
\* with the too-many-failed-attempts error and on a reply that reported no
\* attempt remaining; after a rejection that reports attempts remaining the
\* call stays in the loop, where it asks for the next code.
C11_ChallengeLoop ==
    \A t \in Threads :
        /\ (result[t].op = "login" /\ result[t].did.loop = "challenge"
               /\ result[t].did.posts = 1 /\ result[t].did.codes > 0
               /\ result[t].did.last # "transport")
              => /\ result[t].exc = "TooManyFailedAttempts"
                 /\ result[t].did.remaining = 0
        /\ (pc[t] = "challenge" /\ fr[t].codes > 0) => fr[t].remaining > 0

\* C12: once a challenge code was accepted the session carries the
\* challenge-response header with the challenge id before the payload is
\* posted again, and the login() that posted it again either returned
\* logged-in through the full path or raised a login error.
C12_ChallengeSuccess ==
    \A t \in Threads :
        /\ pc[t] = "resubmit"
              => headers["X-ROBINHOOD-CHALLENGE-RESPONSE-ID"] = StrV(fr[t].challenge_id)
        /\ (result[t].op = "login" /\ result[t].did.loop = "challenge"
               /\ result[t].did.posts = 2)
              => /\ headers["X-ROBINHOOD-CHALLENGE-RESPONSE-ID"]
                      = StrV(result[t].did.challenge_id)
                 /\ \/ result[t].exc = "none" /\ result[t].via = "full" /\ logged_in
                    \/ result[t].exc \in {"LoginError", "TroubleConnecting"}

\* C13: every answer of the login endpoint that carries access_token brings
\* login() to its last step with that body, and that step returns with the
\* Authorization header '<token_type> <access_token>', the state logged-in,
\* and the bundle written to the profile's cache file if store_session is
\* true, the cache untouched if it is false.
C13_FullLogin ==
    [][\A t \in Threads :
          /\ (pc[t] \in {"post", "mfa", "resubmit"} /\ issued' = issued + 1)
                => pc'[t] = "finish" /\ Has(fr'[t].data, "access_token")
          /\ (pc[t] = "finish" /\ Has(fr[t].data, "access_token"))
                => LET data == fr[t].data
                       bundle == Bundle(data.f.token_type, data.f.access_token,
                                        data.f.refresh_token, fr[t].device_token)
                   IN  /\ pc'[t] = "idle"
                       /\ result'[t].exc = "none" /\ result'[t].value = bundle
                       /\ SESSION_DATA' = bundle
                       /\ logged_in'
                       /\ headers'["Authorization"]
                             = AuthHeader(data.f.token_type, data.f.access_token)
                       /\ cache' = IF fr[t].store_session
                                   THEN [cache EXCEPT ![fr[t].pickle_name] = bundle]
                                   ELSE cache]_vars

C13_Witness ==
    /\ result[1].op = "login" /\ result[1].via = "full"
    /\ ~result[1].did.store_session
    /\ cache[result[1].did.pickle_name] = NoFile
    /\ logged_in /\ headers["Authorization"].t = "auth"

\* C14: a login() whose POST of the payload was answered with an error
\* detail and an error status raised the login error carrying that detail,
\* and the connectivity error is never raised by a login() whose POST was
\* answered with that detail.
C14_LoginRejection ==
    \A t \in Threads :
        /\ (result[t].op = "login" /\ result[t].did.loop = "none"
               /\ result[t].did.posts = 1 /\ result[t].did.last = "http_error")
              => /\ result[t].exc = "LoginError"
                 /\ result[t].value = DetailBody.f.detail
        /\ (result[t].op = "login" /\ result[t].exc = "TroubleConnecting")
              => result[t].did.last # "http_error"

\* C15: after every request_post call, in JSON or form mode, answered 2xx,
\* with an error status or not at all, the session's Content-Type header is
\* the one the session was created with.
C15_ContentTypeRestored ==
    call.method = "post"
        => /\ headers["Content-Type"] = create_session["Content-Type"]
           /\ outcome.exc = "none"

C15_Witness ==
    /\ call.method = "post" /\ call.json /\ call.status = "transport"
    /\ headers["Content-Type"] = StrV(DefaultContentType)

\* C16: a logout() called in the logged-in state returns with the held
\* session data empty, the state logged-out and the Authorization header
\* set to None, so that the session sends no bearer token any more.
C16_LogoutClears ==
    \A t \in Threads :
        (result[t].op = "logout" /\ result[t].pre.logged_in)
            => /\ result[t].exc = "none"
               /\ SESSION_DATA = EmptySession
               /\ ~logged_in
               /\ headers["Authorization"] = NoneV

C16_Witness ==
    /\ result[1].op = "logout" /\ result[1].pre.logged_in
    /\ result[1].pre.headers["Authorization"].t = "auth"
    /\ headers["Authorization"] = NoneV

\* C17: logout() leaves every cache file as it was, and a login() that
\* follows a logout() and whose probe of the cached bundle succeeds returns
\* that bundle through the cache path, without asking for the credentials
\* and without posting to the login endpoint.
C17_LogoutKeepsCache ==
    /\ [][\A t \in Threads :
             (pc[t] = "idle" /\ pc'[t] = "idle" /\ result'[t].op = "logout")
                => cache' = cache]_vars
    /\ [](\A t \in Threads :
             (result[t].op = "login" /\ result[t].did.after_logout
                /\ result[t].did.probe = "ok")
               => /\ result[t].exc = "none" /\ result[t].via = "cache"
                  /\ result[t].value
                       = Annotated(cache[result[t].did.pickle_name],
                                   result[t].did.pickle_name)
                  /\ logged_in
                  /\ ~result[t].did.prompted /\ result[t].did.posts = 0)

\* A login that pickled its bundle, a logout, and a login from that file.
C17_Witness ==
    /\ result[1].op = "login" /\ result[1].did.after_logout
    /\ result[1].via = "cache" /\ ~result[1].did.prompted
    /\ result[1].did.cached_session.kind = "bundle"
    /\ result[1].did.cached_session.access_token = TokV(1)
    /\ cache[result[1].did.pickle_name] = result[1].did.cached_session

\* C18: a login(store_session=True) that found no cache file, or one that
\* is no pickled bundle, raised neither out of the load nor out of the use
\* of what was loaded: it sent no probe and went on to post the credentials.
C18_CacheLoadFailsSoft ==
    \A t \in Threads :
        (result[t].op = "login" /\ result[t].did.store_session
           /\ result[t].did.file # "bundle")
            => /\ result[t].exc \notin {"EOFError", "KeyError"}
               /\ result[t].did.probe = "none"
               /\ result[t].did.posts >= 1

\* C19: filter_data with a field name returns, for a list of objects that
\* all have the field, the list of the field's values, one per element and
\* in element order, and for one object that has the field, its value.
C19_FilterProjection ==
    (call.method = "filter_data" /\ call.info # NoneV)
        => LET data == call.data
               key == call.info.s
           IN  /\ (/\ data.t = "list"
                   /\ \A i \in DOMAIN data.items :
                         data.items[i].t = "obj" /\ key \in DOMAIN data.items[i].f)
                     => /\ outcome.exc = "none"
                        /\ outcome.value.t = "list"
                        /\ Len(outcome.value.items) = Len(data.items)
                        /\ \A i \in DOMAIN data.items :
                              outcome.value.items[i] = data.items[i].f[key]
               /\ (data.t = "obj" /\ key \in DOMAIN data.f)
                     => outcome.exc = "none" /\ outcome.value = data.f[key]

C19_Witness ==
    /\ call.method = "filter_data" /\ call.info = StrV("a")
    /\ call.data = ListV(<<Obj([a |-> NumV(2)]), Obj([a |-> NumV(1), b |-> NumV(1)])>>)
    /\ outcome = Return(ListV(<<NumV(2), NumV(1)>>), 0)

C21_NoFieldUnchanged ==
    (call.method = "filter_data" /\ call.info = NoneV)
        => outcome = Return(call.data, 0)

\* C21, amended: filter_data without a field name returns every data value
\* but the [null] sentinel unchanged, and the empty list for the sentinel.
C21_NoFieldUnchangedButSentinel ==
    (call.method = "filter_data" /\ call.info = NoneV)
        => outcome = Return(IF call.data = ListV(<<NoneV>>) THEN ListV(<<>>) ELSE call.data, 0)

C21_Witness ==
    /\ call.method = "filter_data" /\ call.info = NoneV
    /\ call.data = ListV(<<Obj([a |-> NumV(1)]), NoneV>>)
    /\ outcome = Return(call.data, 0)

\* C22: filter_data applied to the [null] sentinel returns the empty list
\* and raises nothing, whatever the field name, given or not.
C22_SentinelEmpty ==
    (call.method = "filter_data" /\ call.data = ListV(<<NoneV>>))
        => outcome = Return(ListV(<<>>), 0)

C22_Witness ==
    /\ call.method = "filter_data" /\ call.data = ListV(<<NoneV>>)
    /\ call.info = StrV("a")
    /\ outcome = Return(ListV(<<>>), 0)

\* C23: a GET of shape 'indexzero' that is answered 2xx returns the first
\* element of body.results, or the empty object when results is absent or
\* empty, and raises nothing.
C23_IndexZero ==
    (call.method = "get" /\ call.dataType = "indexzero" /\ call.jsonify_data
       /\ call.status = "ok")
        => /\ outcome.exc = "none"
           /\ outcome.value = IF pages[1].hasResults /\ pages[1].results # <<>>
                               THEN pages[1].results[1]
                               ELSE Obj([k \in {} |-> NoneV])

\* C24: a GET of shape 'results' that is answered 2xx returns body.results
\* when the body has it, and the one-element list [null] when it has not.
C24_ResultsShape ==
    (call.method = "get" /\ call.dataType = "results" /\ call.jsonify_data
       /\ call.status = "ok")
        => /\ outcome.exc = "none"
           /\ outcome.value = IF pages[1].hasResults
                               THEN ListV(pages[1].results)
                               ELSE ListV(<<NoneV>>)

C24_Witness ==
    /\ call.method = "get" /\ call.dataType = "results" /\ call.jsonify_data
    /\ call.status = "ok" /\ ~pages[1].hasResults
    /\ outcome = Return(ListV(<<NoneV>>), 1)

\* C25: after reset_session() the shared session holds exactly the default
\* headers, and the session that requests and header updates go through is
\* the one reset_session() created: a request sent at any time carries the
\* headers of the current shared session.
C25_SessionReset ==
    /\ call.method = "reset_session" => headers = create_session
    /\ tda_result.op = "reset_session"
          => /\ sessions[globals_SESSION] = tda_create_session
             /\ helper_SESSION = globals_SESSION
    /\ tda_result.op = "request" => tda_result.sent = sessions[globals_SESSION]

\* C26: a TDA login() that returned asked for new access and refresh tokens
\* and wrote them with both timestamps set to the time of the call when the
\* stored refresh_timestamp was more than 60 days old; otherwise asked for a
\* new access token only and wrote it with the stored refresh token and
\* refresh_timestamp when the authorization_timestamp was more than 30
\* minutes old; otherwise made no request and left the cache as it was.  The
\* Authorization header is 'Bearer' and the access token now in the cache.
C26_TokenRefresh ==
    (tda_result.op = "login" /\ tda_result.exc = "none")
        => LET old == tda_result.pre
               t == tda_result.at
               key == tda_result.passcode
               stored(field) == decrypt_data(key, pickle[field]).value
           IN  /\ old.kind = "record" /\ pickle.kind = "record"
               /\ IF t - old.refresh_timestamp > 60 * 24 * 60
                  THEN /\ tda_result.requests = 1 /\ tda_result.grant = "offline"
                       /\ stored("authorization_token") = TokV(api.issued)
                       /\ stored("refresh_token") = TokV(api.issued)
                       /\ pickle.authorization_timestamp = t
                       /\ pickle.refresh_timestamp = t
                  ELSE IF t - old.authorization_timestamp > 30
                  THEN /\ tda_result.requests = 1 /\ tda_result.grant = "access"
                       /\ stored("authorization_token") = TokV(api.issued)
                       /\ pickle.refresh_token = old.refresh_token
                       /\ pickle.refresh_timestamp = old.refresh_timestamp
                       /\ pickle.authorization_timestamp = t
                  ELSE tda_result.requests = 0 /\ pickle = old
               /\ stored("client_id") = decrypt_data(key, old.client_id).value
               /\ sessions[helper_SESSION]["Authorization"]
                     = [t |-> "auth", token_type |-> "Bearer",
                        access_token |-> stored("authorization_token")]
               /\ tda_result.value = sessions[helper_SESSION]["Authorization"]
               /\ LOGGED_IN

\* An access-token refresh that kept a refresh stamp older than the new
\* authorization stamp.
C26_Witness ==
    /\ tda_result.op = "login" /\ tda_result.exc = "none"
    /\ tda_result.grant = "access"
    /\ pickle.kind = "record"
    /\ pickle.refresh_timestamp < pickle.authorization_timestamp

\* C27: a TDA login() called when no cache file has been written raises
\* the AuthenticationError that asks for login_first_time(), and the login
\* state stays false.
C27_NoCacheYet ==
    (tda_result.op = "login" /\ tda_result.pre = [kind |-> "absent"])
        => tda_result.exc = "AuthenticationError" /\ ~LOGGED_IN

\* C28: a get_accounts call that found more than CALLS (120) calls recorded
\* for the window returns (None, error) with 'rate limit exceeded' in the
\* error, raises nothing, and issues no API request.
C28_AccountsRateLimit ==
    (tda_result.op = "get_accounts" /\ tda_result.count > 120)
        => /\ tda_result.exc = "none"
           /\ tda_result.value = <<NoneV, <<"API rate limit exceeded">>>>
           /\ tda_result.requests = 0

\* C29: an order or market request whose last answer from the API was an
\* error status ends with a TDAAPIError that says 'Rate limit exceeded'
\* for 429, 'Server error' for 500 and above, 'API error: <status>'
\* otherwise.
C29_ApiErrors ==
    (/\ tda_result.op \in {"client_request", "place_order", "get_hours_for_market"}
     /\ tda_result.requests >= 1
     /\ tda_result.last \notin {200, 0})
        => /\ tda_result.exc = "TDAAPIError"
           /\ tda_result.msg = IF tda_result.last = 429 THEN <<"Rate limit exceeded">>
                                ELSE IF tda_result.last >= 500 THEN <<"Server error">>
                                ELSE <<"API error: ", tda_result.last>>

\* C30: the second of two get_hours_for_market calls for the same market
\* and date, made logged in against an API that answers 200, returns what
\* the first returned, and the two calls issue one API request in total.
C30_MemoizedHours ==
    (/\ Len(api.hours) = 2
     /\ api.hours[1].market = api.hours[2].market
     /\ \A i \in 1..2 : api.hours[i].logged_in /\ api.hours[i].healthy)
        => /\ api.hours[2].exc = "none"
           /\ api.hours[1].exc = "none"
           /\ api.hours[2].value = api.hours[1].value
           /\ api.hours[1].requests + api.hours[2].requests = 1

\* C31: get_orders_for_account called, logged in, with a status that is
\* neither an OrderStatus member nor the name of one raises ValueError and
\* issues no HTTP request.
C31_InvalidStatus ==
    (/\ tda_result.op = "get_orders_for_account"
     /\ tda_result.arg = "invalid"
     /\ LOGGED_IN)
        => tda_result.exc = "ValueError" /\ tda_result.requests = 0

\* C32: whenever no login() is in progress, _SESSION_DATA is non-empty
\* exactly when the session store's logged-in flag is true, so that
\* logout() is let through exactly when the data-access operations are.
C32_IndicatorsAgree ==
    (\A t \in Threads : pc[t] = "idle")
        => /\ (SESSION_DATA # EmptySession) <=> logged_in
           /\ LogoutAllowed <=> login_required

\* C33: login() releases _LOGIN_LOCK on every way out - return, login
\* error, an exception raised in the cache probe or in the MFA or challenge
\* loop: the lock is held only by a thread that is inside login(), so a
\* login() that has finished never keeps a later one waiting.
C33_LockReleased ==
    /\ \A t \in Threads : pc[t] \in {"idle", "acquire"} => lock # t
    /\ lock # 0 => lock \in Threads /\ pc[lock] \notin {"idle", "acquire"}

\* A login() that ended with an exception raised in a retry loop, and the
\* other thread's login() holding the lock after it.
C33_Witness ==
    \E t \in Threads :
        /\ result[t].op = "login"
        /\ result[t].exc \in {"AttributeError", "TypeError"}
        /\ pc[t] = "idle"
        /\ lock \in Threads \ {t}

\* C34: once a login() and a logout() that ran side by side have both
\* finished, the logged-in flag is true exactly when the Authorization
\* header carries a token and _SESSION_DATA is non-empty.
C34_NoMixedState ==
    (/\ \A t \in Threads : pc[t] = "idle"
     /\ result[1].op = "login"
     /\ result[2].op = "logout")
        => (logged_in <=> /\ headers["Authorization"] \notin {Absent, NoneV}
                          /\ SESSION_DATA # EmptySession)

\* C35: with request_post calls running side by side on the shared
\* session, every JSON-mode POST goes out with Content-Type
\* application/json and every form-mode POST with the form-encoded one.
C35_PostContentType ==
    \A t \in Threads :
        result[t].op \in {"request_post_pending", "request_post"} /\ result[t].requests = 1
            => result[t].sent = StrV(SentContentType(result[t].json))

\* C36: a memoized account getter called right after a login() that
\* followed a logout() issues a new request: it does not hand back the
\* result kept from the session before the logout.
C36_NoDataAcrossSessions ==
    [][\A t \in Threads :
          (/\ result[t].op = "login" /\ result[t].exc = "none"
           /\ result[t].did.after_logout
           /\ result'[t].op = "get_all_positions" /\ result'[t].exc = "none")
              => result'[t].requests >= 1]_vars

C38_RateLimiterAdmission ==
    (tda_result.op = "get_accounts" /\ tda_result.count >= 1)
        => /\ tda_result.ran <=> tda_result.count <= 120
           /\ tda_result.count > 120
                 => tda_result.exc \in {"RateLimitExceeded", "CircuitBreakerError"}

\* C39: TDAClientSession.request makes at most 3 attempts for one call: it
\* tries again after an attempt that failed, never issues a fourth
\* request, returns the first successful response, and ends with an error
\* when all three attempts have failed.
C39_BoundedRetry ==
    tda_result.op = "client_request"
        => LET r == tda_result.replies
               n == tda_result.requests
           IN  /\ n \in 1..3
               /\ \A i \in 1..(n - 1) : r[i] # 200
               /\ IF r[n] = 200
                  THEN tda_result.exc = "none" /\ tda_result.value.t = "obj"
                  ELSE n = 3 /\ tda_result.exc # "none"

\* A request that succeeded at its third attempt.
C39_Witness ==
    /\ tda_result.op = "client_request"
    /\ tda_result.requests = 3
    /\ tda_result.exc = "none"
    /\ tda_result.replies[1] # 200 /\ tda_result.replies[2] # 200

\* C40: filter_data raises for no list of objects and no field name, and
\* hands back a list: also when the first element has the field and a later
\* one lacks it.
C40_FilterNeverRaises ==
    (/\ call.method = "filter_data"
     /\ call.data.t = "list"
     /\ \A i \in DOMAIN call.data.items : call.data.items[i].t = "obj")
        => outcome.exc = "none" /\ outcome.value.t = "list"
====
